---- MODULE Spec2Model ----
(***************************************************************************)
(* Model of the sovd2uds-adapter: the UDS client pool (UdsClientPool), the *)
(* per-component session (UdsClient) and the transport handle              *)
(* (UdsClientHandle) over the external native UDS client library.          *)
(*                                                                         *)
(* Every handler task is a sequence of steps; a native call is two steps   *)
(* (the call begins, the call returns), so that calls of different tasks   *)
(* can overlap exactly where the locks of the code let them overlap.       *)
(*                                                                         *)
(* Spec is the pool with its concurrent tasks; SpecSession is one          *)
(* UdsClient driven directly through its API, and the response decoder;    *)
(* SpecTranslator is the codec and the translator applied to inputs.       *)
(***************************************************************************)
EXTENDS Integers, Sequences, FiniteSets, TLC

\* ------------------------------------------------------------------ bounds
NumTasks == 2
MaxOps == 3
MaxHandles == 2
MaxCalls == 3
MaxBufLen == 9

Tasks == 1..NumTasks
Handles == 1..MaxHandles
\* Component ids requests name: two configured components and one that the
\* configuration does not list.
ComponentIds == {"engine", "abs", "unknown"}

\* A null native pointer / an absent Option<..> value.
NoHandle == 0
\* The pool's RwLock with no writer.
NoTask == 0

\* --------------------------------------------------------- program constants
VIN == 61840
StartRoutine == 1
max_retries == 3
BusyRepeatRequest == 33
RequestOutOfRange == 49
XorConstant == 170
default_address == 2016
ResponsePending == 120

\* Config.components (component id -> ECU address) of the default configuration,
\* for the ids of the model.
components == [c \in {"engine", "abs"} |-> IF c = "engine" THEN 2016 ELSE 2018]

\* Config::get_component_address: the configured address, or else the default
\* address (the Option is always Some).
get_component_address(c) ==
    IF c \in DOMAIN components THEN components[c] ELSE default_address

\* Error codes the native library reports in uds_response_t.error_code.
ErrorCodes == {BusyRepeatRequest, RequestOutOfRange}
\* Seeds the ECU may answer a request-seed with (empty: already unlocked).
SeedValues == {<<>>, <<18, 52>>}
\* Payload of a positive answer to the other services.
ReadPayload == <<241, 144, 87>>
WritePayload == <<1>>

\* Configurations (config.toml / environment): security.require_security_access,
\* security.security_level (u8), and whether the build checks integer overflow
\* (debug profile) or wraps (release profile).
Configs ==
    { [require |-> FALSE, level |-> 1, checks |-> FALSE],
      [require |-> TRUE,  level |-> 1, checks |-> FALSE],
      [require |-> TRUE,  level |-> 0, checks |-> FALSE],
      [require |-> TRUE,  level |-> 0, checks |-> TRUE] }

\* Handlers that obtain a session from the pool: get_data_item_value, the write
\* path, control_actuator, manage_dtcs and execute_service.
HandlerKinds == {"read", "write", "routine", "service", "dtcs"}
RequestFns == {"read_data_by_identifier", "write_data_by_identifier",
               "security_access", "routine_control", "read_dtc_information",
               "clear_diagnostic_information", "diagnostic_session_control",
               "ecu_reset"}

VARIABLES
    require_security_access, \* Config.security.require_security_access
    security_level,          \* Config.security.security_level
    overflow_checks,         \* build profile: arithmetic overflow panics
    clients,                 \* UdsClientPool.clients: component id -> handle or NoHandle
    poolLock,                \* writer of the pool RwLock, or NoTask
    nextHandle,              \* number of native clients created so far
    hstate,                  \* native client: unused/created/connected/disconnected/destroyed
    hcomp,                   \* UdsClient.component_id of the session owning the handle
    refs,                    \* strong count of the Arc<UdsClient>
    granted,                 \* the ECU has granted security access on this session
    evicted,                 \* sessions the pool has removed (remove_client, close_all)
    released,                \* native calls Drop for UdsClientHandle made on the handle
    pc,                      \* position of each task in its handler
    op,                      \* the operation a task is running
    cur,                     \* the Arc<UdsClient> a task holds, or NoHandle
    log,                     \* native calls of the task's operation in progress, in order
    result,                  \* result of the task's current/last operation
    drainQ,                  \* close_all: sessions drained and not yet disconnected
    opsStarted,              \* operations started so far (all tasks)
    sess,                    \* a UdsClient used directly through its API, or NoSession
    nstate,                  \* its native client: none/created/connected/disconnected/destroyed
    calls,                   \* the API calls made on it, with their results
    decoded,                 \* the last result of UdsResponse::from_bytes
    applied                  \* the last application of a codec / translator function

poolVars == <<require_security_access, security_level, overflow_checks, clients, poolLock,
              nextHandle, hstate, hcomp, refs, granted, evicted, released, pc, op, cur, log,
              result, drainQ, opsStarted>>

apiVars == <<sess, nstate, calls, decoded>>

vars == <<poolVars, apiVars, applied>>

cfgVars == <<require_security_access, security_level, overflow_checks>>

\* ------------------------------------------------------------------ helpers
\* A Result: Ok(data), or Err(Sovd2UdsError) with the variant, the message of the
\* error and the error code the message carries; or the task panicked.
NoResult == [status |-> "none", error |-> "", msg |-> "", code |-> 0, data |-> <<>>]
OkResult(d) == [status |-> "ok", error |-> "", msg |-> "", code |-> 0, data |-> d]
ErrResult(e, m, c) == [status |-> "err", error |-> e, msg |-> m, code |-> c, data |-> <<>>]
PanicResult == [status |-> "panic", error |-> "", msg |-> "", code |-> 0, data |-> <<>>]

Call(fn, h, arg, data) ==
    [fn |-> fn, h |-> h, arg |-> arg, data |-> data,
     out |-> "pending", code |-> 0, resp |-> <<>>]

Last(s) == s[Len(s)]

\* The native call task t is inside of, if any.
InCall(t) == Len(log[t]) > 0 /\ Last(log[t]).out = "pending"
InCallOn(t, h) == InCall(t) /\ Last(log[t]).h = h
InRequestOn(t, h) == InCallOn(t, h) /\ Last(log[t]).fn \in RequestFns

\* The returned call replaces the pending entry.
Returned(t, o) ==
    [log[t] EXCEPT ![Len(log[t])] =
        [@ EXCEPT !.out = o.out, !.code = o.code, !.resp = o.resp]]

\* Outcomes of a native request: a null response, a response with a non-zero
\* error_code, or a response with error_code 0 and data.
Payloads(c) ==
    IF c.fn = "security_access" /\ c.data = <<>> THEN SeedValues
    ELSE IF c.fn = "security_access" THEN {<<>>}
    ELSE IF c.fn = "read_data_by_identifier" THEN {ReadPayload}
    ELSE IF c.fn = "read_dtc_information" THEN {<<1, 0, 0, 47>>}   \* P0100, status 0x2F
    ELSE {<<>>}

RequestOutcomes(c) ==
    {[out |-> "null", code |-> 0, resp |-> <<>>]}
    \cup {[out |-> "err", code |-> e, resp |-> <<>>] : e \in ErrorCodes}
    \cup {[out |-> "ok", code |-> 0, resp |-> d] : d \in Payloads(c)}

\* Outcomes of uds_client_connect / uds_client_disconnect: 0 or an error code.
StatusOutcomes ==
    {[out |-> "ok", code |-> 0, resp |-> <<>>], [out |-> "err", code |-> 1, resp |-> <<>>]}

\* The message of the error each wrapper builds from a non-zero error_code.
FailureMessage(fn) ==
    CASE fn = "read_data_by_identifier" -> "UDS error code"
      [] fn = "write_data_by_identifier" -> "Write failed with error code"
      [] fn = "security_access" -> "Security access failed with error code"
      [] fn = "routine_control" -> "Routine control failed with error code"
      [] fn = "diagnostic_session_control" -> "Session control failed with error code"
      [] fn = "ecu_reset" -> "ECU reset failed with error code"
      [] fn = "read_dtc_information" -> "Read DTC failed with error code"
      [] fn = "clear_diagnostic_information" -> "Clear DTC failed with error code"
      [] fn = "connect" -> "Connection failed with error code"
      [] fn = "disconnect" -> "Disconnection failed with error code"

\* The Result a transport call maps its outcome to.
RequestResult(fn, o) ==
    IF o.out = "ok" THEN OkResult(o.resp)
    ELSE IF o.out = "null" THEN ErrResult("UdsCommunication", "Null response received", 0)
    ELSE ErrResult("UdsCommunication", FailureMessage(fn), o.code)

\* IntoResponse for AppError: the HTTP status of a handler's result (200 for Ok).
into_response(res) ==
    IF res.status = "ok" THEN 200
    ELSE IF res.error \in {"ComponentNotFound", "DataItemNotFound"} THEN 404
    ELSE IF res.error = "InvalidRequest" THEN 400
    ELSE IF res.error = "Timeout" THEN 408
    ELSE 500

\* Dropping one Arc<UdsClient>: the last owner drops the UdsClientHandle, whose
\* Drop attempts a disconnect and destroys the native client.
RefsAfterDrop(r, h) == [r EXCEPT ![h] = @ - 1]

\* A drop that runs Drop for UdsClientHandle whoever else still owns the session.
AnyOwner(r, h) == TRUE

\* The Arc<UdsClient> being dropped is the last one.
LastOwner(r, h) == r[h] = 1

StateAfterDrop(s, r, h) == IF LastOwner(r, h) THEN [s EXCEPT ![h] = "destroyed"] ELSE s

\* Drop for UdsClientHandle: uds_client_disconnect (result ignored), then
\* uds_client_destroy.
DropCalls == <<"disconnect", "destroy">>
ReleasedAfterDrop(rel, r, h) ==
    IF LastOwner(r, h) THEN [rel EXCEPT ![h] = @ \o DropCalls] ELSE rel

\* UdsClient.ecu_address of the session owning handle h, set by UdsClient::new.
ecu_address(h) == get_component_address(hcomp[h])

\* handle.read().await on the session's RwLock<UdsClientHandle>: a shared lock,
\* granted unless a writer holds the lock. No code path takes handle.write().
HandleWriters(h) == {}

\* A handle lock that is never granted to a reader.
HandleNeverReadable(h) == FALSE

HandleReadable(h) == HandleWriters(h) = {}

\* HashMap::get on the pool map finds an entry (clients[c] is NoHandle when absent).
InPool(c) == clients[c] # NoHandle

\* A pool lock that excludes nobody (a lock released before the connect, or a
\* read lock taken in place of the write lock).
PoolLockNotExclusive == TRUE

\* The pool's write lock can be taken.
PoolLockFree == poolLock = NoTask

\* The operation of task t ends with result res.
Finish(t, res) ==
    /\ result' = [result EXCEPT ![t] = res]
    /\ pc' = [pc EXCEPT ![t] = "idle"]

\* The last native call of task t returns o and ends the operation: of the
\* operation's calls, the record keeps that one.
LastReturned(t, o) == <<Last(Returned(t, o))>>

\* ------------------------------------------------- a session used directly
\* No UdsClient (before UdsClient::new, after the drop).
NoSession == [handle |-> NoHandle, component_id |-> "", ecu_address |-> 0]

\* Option<u8>::None of UdsResponse.nrc.
NoNrc == -1

\* Option<UdsResponse>::None, and the result of no decoding yet.
NoResponse == [some |-> FALSE, service_id |-> 0, data |-> <<>>,
               is_positive |-> FALSE, nrc |-> NoNrc]

\* UdsResponse::new_positive (in Some).
new_positive(service_id, data) ==
    [some |-> TRUE, service_id |-> service_id, data |-> data,
     is_positive |-> TRUE, nrc |-> NoNrc]

\* A constructor that marks the negative response positive.
new_negative_marked_positive(service_id, nrc) ==
    [some |-> TRUE, service_id |-> service_id, data |-> <<>>,
     is_positive |-> TRUE, nrc |-> nrc]

\* UdsResponse::new_negative (in Some).
new_negative(service_id, nrc) ==
    [some |-> TRUE, service_id |-> service_id, data |-> <<>>,
     is_positive |-> FALSE, nrc |-> nrc]

\* UdsResponse::from_bytes.
from_bytes(bytes) ==
    IF Len(bytes) = 0 THEN NoResponse
    ELSE IF bytes[1] = 127
    THEN IF Len(bytes) < 3 THEN NoResponse
         ELSE new_negative(bytes[2], bytes[3])
    ELSE new_positive(bytes[1], SubSeq(bytes, 2, Len(bytes)))

\* A UdsRequest (its fields are public: any u8 is a service id).
UdsRequest(service_id, data) == [service_id |-> service_id, data |-> data]

\* An encoder that drops the payload.
to_bytes_without_data(r) == <<r.service_id>>

\* UdsRequest::to_bytes.
to_bytes(r) == <<r.service_id>> \o r.data

\* Response frames given to the decoder.
Frames == { <<>>, <<127>>, <<127, 34>>, <<127, 34, 120>>, <<127, 34, 49>>,
            <<98>>, <<98, 241, 144, 87>> }

\* DiagnosticSessionType values a caller asks for (default, extended).
SessionTypes == {1, 3}

\* Outcomes of a native request on the directly used session; the error codes
\* include 0x78 (response pending).
ApiOutcomes(data) ==
    {[out |-> "null", code |-> 0, resp |-> <<>>]}
    \cup {[out |-> "err", code |-> e, resp |-> <<>>] : e \in ErrorCodes \cup {ResponsePending}}
    \cup {[out |-> "ok", code |-> 0, resp |-> data]}

\* The record of one API call: the state of the native client before and after
\* it and the Result it returned.
ApiCall(fn, arg, before, after, res) ==
    [fn |-> fn, arg |-> arg, before |-> before, after |-> after, result |-> res]

SessionIdle ==
    /\ sess = NoSession
    /\ nstate = "none"
    /\ calls = <<>>
    /\ decoded = NoResponse

\* No codec or translator function applied yet.
NoApplication == [fn |-> "none", arg |-> <<>>, done |-> FALSE, out |-> <<>>]

TranslatorIdle == applied = NoApplication

\* ------------------------------------------------- codec and translator
\* Text (a Rust String, a JSON string) is the sequence of its UTF-8 bytes:
\* "P0100" is <<80, 48, 49, 48, 48>>.

\* Display of an unsigned integer (`{}`): its decimal digits.
RECURSIVE Display(_)
Display(n) == IF n < 10 THEN <<48 + n>> ELSE Display(n \div 10) \o <<48 + (n % 10)>>

\* A hex digit in lower case.
LowerHexDigit(n) == IF n < 10 THEN 48 + n ELSE 87 + n

\* One digit of `{:02X}`: 0-9, A-F.
HexDigit(n) == IF n < 10 THEN 48 + n ELSE 55 + n

\* `{:02X}` of a byte: two upper-case hex digits.
UpperHex2(b) == <<HexDigit(b \div 16), HexDigit(b % 16)>>

\* hex::encode: the `{:02X}` of every byte, joined without separator.
RECURSIVE encode(_)
encode(data) ==
    IF data = <<>> THEN <<>>
    ELSE UpperHex2(data[1]) \o encode(SubSeq(data, 2, Len(data)))

\* A UTF-8 continuation byte in lo..hi at position i.
ContIn(bytes, i, lo, hi) == i <= Len(bytes) /\ bytes[i] >= lo /\ bytes[i] <= hi

\* The width of the well-formed UTF-8 sequence that starts at position i, or 0
\* (String::from_utf8 rejects overlong forms, surrogates and code points above
\* U+10FFFF).
Utf8Width(bytes, i) ==
    LET b == bytes[i] IN
    IF b < 128 THEN 1
    ELSE IF b >= 194 /\ b <= 223
    THEN IF ContIn(bytes, i + 1, 128, 191) THEN 2 ELSE 0
    ELSE IF b >= 224 /\ b <= 239
    THEN IF /\ \/ b = 224 /\ ContIn(bytes, i + 1, 160, 191)
               \/ b = 237 /\ ContIn(bytes, i + 1, 128, 159)
               \/ b \notin {224, 237} /\ ContIn(bytes, i + 1, 128, 191)
            /\ ContIn(bytes, i + 2, 128, 191)
         THEN 3 ELSE 0
    ELSE IF b >= 240 /\ b <= 244
    THEN IF /\ \/ b = 240 /\ ContIn(bytes, i + 1, 144, 191)
               \/ b = 244 /\ ContIn(bytes, i + 1, 128, 143)
               \/ b \in {241, 242, 243} /\ ContIn(bytes, i + 1, 128, 191)
            /\ ContIn(bytes, i + 2, 128, 191)
            /\ ContIn(bytes, i + 3, 128, 191)
         THEN 4 ELSE 0
    ELSE 0

\* String::from_utf8(..).is_ok().
RECURSIVE Utf8From(_, _)
Utf8From(bytes, i) ==
    IF i > Len(bytes) THEN TRUE
    ELSE IF Utf8Width(bytes, i) = 0 THEN FALSE
    ELSE Utf8From(bytes, i + Utf8Width(bytes, i))

from_utf8_ok(bytes) == Utf8From(bytes, 1)

\* serde_json::Value of the variants the translator builds.
JsonString(text) == [json |-> "string", value |-> text]
JsonNumber(n) == [json |-> "number", value |-> n]
JsonBool(b) == [json |-> "bool", value |-> b]

\* An unsigned number of up to 32 bits, as its two 16-bit halves (the value is
\* hi * 65536 + lo).
U32(hi, lo) == [hi |-> hi, lo |-> lo]

\* data[0].into(), u16::from_be_bytes, u32::from_be_bytes: the first byte is the
\* most significant.
from_be_bytes(data) ==
    IF Len(data) = 1 THEN U32(0, data[1])
    ELSE IF Len(data) = 2 THEN U32(0, 256 * data[1] + data[2])
    ELSE U32(256 * data[1] + data[2], 256 * data[3] + data[4])

\* SovdUdsTranslator::convert_uds_data_to_sovd: always Ok(value).
convert_uds_data_to_sovd(data, data_type) ==
    OkResult(
        IF data_type = "string"
        THEN JsonString(IF from_utf8_ok(data) THEN data ELSE encode(data))
        ELSE IF data_type = "number"
        THEN IF Len(data) \in {1, 2, 4} THEN JsonNumber(from_be_bytes(data))
             ELSE JsonString(encode(data))
        ELSE IF data_type = "boolean"
        THEN JsonBool(IF Len(data) > 0 THEN data[1] # 0 ELSE FALSE)
        ELSE JsonString(encode(data)))

\* SovdUdsTranslator::format_dtc: the prefix letter, then the four digit values
\* each written with `{}`.
format_dtc(bytes) ==
    IF Len(bytes) < 3 THEN <<85, 78, 75, 78, 79, 87, 78>>     \* "UNKNOWN"
    ELSE LET first_byte == bytes[1]
             top == (first_byte \div 64) % 4
             prefix == CASE top = 0 -> 80                      \* 'P'
                         [] top = 1 -> 67                      \* 'C'
                         [] top = 2 -> 66                      \* 'B'
                         [] top = 3 -> 85                      \* 'U'
             second_digit == (first_byte \div 16) % 4
             third_digit == first_byte % 16
             fourth_fifth == bytes[2]
         IN  <<prefix>> \o Display(second_digit) \o Display(third_digit)
                 \o Display((fourth_fifth \div 16) % 16) \o Display(fourth_fifth % 16)

\* One element of the list parse_dtc_data builds: the json! object of an entry
\* (status is "0x" and `{:02X}`).
DtcEntry(dtc_bytes, status) ==
    [code |-> format_dtc(dtc_bytes),
     status |-> <<48, 120>> \o UpperHex2(status),
     description |-> "Diagnostic trouble code"]

\* A loop that stops one entry early.
HasEntryStrictly(data, offset) == offset + 4 < Len(data)

\* The loop condition of parse_dtc_data (offset counts from 0).
HasEntry(data, offset) == offset + 4 <= Len(data)

RECURSIVE ParseFrom(_, _)
ParseFrom(data, offset) ==
    IF HasEntry(data, offset)
    THEN <<DtcEntry(SubSeq(data, offset + 1, offset + 3), data[offset + 4])>>
             \o ParseFrom(data, offset + 4)
    ELSE <<>>

\* SovdUdsTranslator::parse_dtc_data: always Ok(list).
parse_dtc_data(data) ==
    OkResult(IF Len(data) < 1 THEN <<>> ELSE ParseFrom(data, 1))

\* SovdUdsTranslator.did_mappings after initialize_default_mappings.
did_mappings ==
    [i \in {"vin", "ecu_serial_number", "ecu_hardware_version", "ecu_software_version",
            "manufacturing_date", "system_supplier_id"} |->
        CASE i = "vin" -> VIN
          [] i = "ecu_serial_number" -> 61836
          [] i = "ecu_hardware_version" -> 61841
          [] i = "ecu_software_version" -> 61844
          [] i = "manufacturing_date" -> 61835
          [] i = "system_supplier_id" -> 61834]

\* SovdUdsTranslator.category_mappings after initialize_default_mappings.
category_mappings ==
    [c \in {"identData"} |->
        <<"vin", "ecu_serial_number", "ecu_hardware_version", "ecu_software_version",
          "manufacturing_date", "system_supplier_id">>]

\* SovdUdsTranslator::create_data_item.
create_data_item(item_id) ==
    LET known == item_id \in DOMAIN did_mappings
        name == CASE item_id = "vin" -> "Vehicle Identification Number"
                  [] item_id = "ecu_serial_number" -> "ECU Serial Number"
                  [] item_id = "ecu_hardware_version" -> "ECU Hardware Version"
                  [] item_id = "ecu_software_version" -> "ECU Software Version"
                  [] item_id = "manufacturing_date" -> "Manufacturing Date"
                  [] item_id = "system_supplier_id" -> "System Supplier ID"
                  [] OTHER -> item_id
    IN  [id |-> item_id, name |-> name,
         category |-> IF known THEN "identData" ELSE "unknown",
         data_type |-> "string"]

\* str::trim, for the category names of the model.
trim(s) == IF s = " identData " THEN "identData" ELSE IF s = " " THEN "" ELSE s

\* The items of the categories in order: filter_map(get).flatten().
RECURSIVE FlattenCategories(_)
FlattenCategories(cats) ==
    IF cats = <<>> THEN <<>>
    ELSE (IF cats[1] \in DOMAIN category_mappings THEN category_mappings[cats[1]] ELSE <<>>)
             \o FlattenCategories(SubSeq(cats, 2, Len(cats)))

\* The orders HashMap::keys may iterate the did_mappings in.
KeyOrders ==
    { o \in [1..Cardinality(DOMAIN did_mappings) -> DOMAIN did_mappings] :
          \A i, j \in DOMAIN o : i # j => o[i] # o[j] }

\* SovdUdsTranslator::get_component_data_items: the ids of the filter's
\* categories, or all keys of did_mappings in the order keys is; one DataItem
\* for every id.
get_component_data_items(categories, keys) ==
    LET item_ids == IF categories.some THEN FlattenCategories(categories.cats) ELSE keys
    IN  [i \in 1..Len(item_ids) |-> create_data_item(item_ids[i])]

\* get_component_data: the query's `categories`, when present, is split at ','
\* (at least one piece, "" for the empty string) and every piece is trimmed.
get_component_data(query, keys) ==
    get_component_data_items(
        IF query.some
        THEN [some |-> TRUE, cats |-> [i \in 1..Len(query.pieces) |-> trim(query.pieces[i])]]
        ELSE [some |-> FALSE, cats |-> <<>>],
        keys)

\* One transport request of a translator function.
TransportCall(fn, arg) == [fn |-> fn, arg |-> arg]

\* SovdUdsTranslator::read_data_item on a session whose transport answers o:
\* the requests sent and the Result.
read_data_item(data_item_id, o) ==
    IF data_item_id \notin DOMAIN did_mappings
    THEN [calls |-> <<>>, result |-> ErrResult("DataItemNotFound", "Data item not found", 0)]
    ELSE LET did == did_mappings[data_item_id]
             raw == RequestResult("read_data_by_identifier", o)
             item == create_data_item(data_item_id)
         IN  [calls |-> <<TransportCall("read_data_by_identifier", did)>>,
              result |->
                  IF raw.status # "ok" THEN raw
                  ELSE OkResult([id |-> data_item_id, name |-> item.name,
                                 category |-> item.category,
                                 data |-> convert_uds_data_to_sovd(raw.data, item.data_type).data,
                                 quality |-> "good"])]

\* A dispatch that reads the DTCs for "clear" as well.
DtcCallsNeverClearing(action) ==
    CASE action = "freeze_frame" -> <<TransportCall("read_dtc_information", 4)>>
      [] action \in {"read", "clear"} -> <<TransportCall("read_dtc_information", 2)>>
      [] OTHER -> <<>>

\* The request each arm of manage_dtcs sends.
DtcCalls(action) ==
    CASE action = "clear" -> <<TransportCall("clear_diagnostic_information", 16777215)>>
      [] action = "read" -> <<TransportCall("read_dtc_information", 2)>>
      [] action = "freeze_frame" -> <<TransportCall("read_dtc_information", 4)>>
      [] OTHER -> <<>>

\* SovdUdsTranslator::manage_dtcs on a session whose transport answers o: the
\* requests sent and the Result.
manage_dtcs(action, o) ==
    LET sent == DtcCalls(action) IN
    IF sent = <<>>
    THEN [calls |-> sent, result |-> ErrResult("InvalidRequest", "Unknown DTC action", 0)]
    ELSE LET raw == RequestResult(sent[1].fn, o) IN
         [calls |-> sent,
          result |->
              IF raw.status # "ok" THEN raw
              ELSE IF action = "clear"
              THEN OkResult([action |-> action, status |-> "success",
                             results |-> <<>>])
              ELSE IF action = "read"
              THEN OkResult([action |-> action, status |-> "success",
                             results |-> parse_dtc_data(raw.data).data])
              ELSE OkResult([action |-> action, status |-> "success",
                             results |-> encode(raw.data)])]

\* An unsigned 64-bit number as its two 32-bit halves.
U64(hi, lo) == [hi |-> hi, lo |-> lo]

\* The u64 of a small natural number.
U64Of(n) == U64(U32(0, 0), U32(n \div 65536, n % 65536))

\* serde_json::Value of a request body: a number is a non-negative integer
\* (PosInt, a u64), a negative integer or a float; or null / array / object.
JsonPosInt(v) == [json |-> "number", n |-> "PosInt", value |-> v]
JsonNegInt == [json |-> "number", n |-> "NegInt", value |-> U64Of(0)]
JsonFloat == [json |-> "number", n |-> "Float", value |-> U64Of(0)]
JsonNull == [json |-> "null", value |-> <<>>]
JsonArray == [json |-> "array", value |-> <<>>]

\* Number::as_u64: Some for a non-negative integer only.
as_u64_some(v) == v.json = "number" /\ v.n = "PosInt"

\* i <= bound for a u64 i and a bound below 65536.
AtMost(i, bound) == i.hi = U32(0, 0) /\ i.lo.hi = 0 /\ i.lo.lo <= bound

\* u16::to_be_bytes.
to_be_bytes16(w) == <<w \div 256, w % 256>>

\* `i as u32`: the low 32 bits.
as_u32(i) == i.lo

\* SovdUdsTranslator::serialize_value_to_bytes.
serialize_value_to_bytes(value) ==
    IF value.json = "number"
    THEN IF as_u64_some(value)
         THEN LET i == value.value IN
              IF AtMost(i, 255) THEN OkResult(<<i.lo.lo>>)
              ELSE IF AtMost(i, 65535) THEN OkResult(to_be_bytes16(i.lo.lo))
              ELSE OkResult(to_be_bytes16(as_u32(i).hi) \o to_be_bytes16(as_u32(i).lo))
         ELSE ErrResult("InvalidRequest", "Invalid number value", 0)
    ELSE IF value.json = "bool" THEN OkResult(IF value.value THEN <<1>> ELSE <<0>>)
    ELSE IF value.json = "string" THEN OkResult(value.value)
    ELSE ErrResult("InvalidRequest", "Unsupported value type", 0)

\* SovdUdsTranslator::get_routine_id (0 for the ids it rejects).
routine_ids ==
    [a \in {"fuel_pump", "cooling_fan", "throttle"} |->
        CASE a = "fuel_pump" -> 513 [] a = "cooling_fan" -> 514 [] a = "throttle" -> 515]

\* A mapping that takes "start" for stop and "stop" for start.
control_types_swapped == [a \in {"start", "stop"} |-> IF a = "start" THEN 2 ELSE StartRoutine]

\* RoutineControlType as u8 of an action.
control_types == [a \in {"start", "stop"} |-> IF a = "start" THEN StartRoutine ELSE 2]

\* SovdUdsTranslator::control_actuator on a session whose transport answers o:
\* the requests sent and the Result. The routine id is looked up first, then the
\* action, then the value is serialised; the one routine_control call follows.
control_actuator(request, o) ==
    IF request.actuator_id \notin DOMAIN routine_ids
    THEN [calls |-> <<>>, result |-> ErrResult("InvalidRequest", "Unknown actuator", 0)]
    ELSE IF request.action \notin {"start", "stop"}
    THEN [calls |-> <<>>, result |-> ErrResult("InvalidRequest", "Unknown actuator action", 0)]
    ELSE LET params == IF request.value.some
                       THEN serialize_value_to_bytes(request.value.v)
                       ELSE OkResult(<<>>)
         IN
         IF params.status # "ok" THEN [calls |-> <<>>, result |-> params]
         ELSE LET sent == TransportCall("routine_control",
                              [control_type |-> control_types[request.action],
                               routine_id |-> routine_ids[request.actuator_id],
                               params |-> params.data])
                  raw == RequestResult("routine_control", o)
              IN  [calls |-> <<sent>>,
                   result |->
                       IF raw.status # "ok" THEN raw
                       ELSE OkResult([actuator_id |-> request.actuator_id,
                                      action |-> request.action,
                                      status |-> "success",
                                      value |-> request.value])]

\* `as u8` of a u64: the low 8 bits.
as_u8(i) == i.lo.lo % 256

\* The values each arm of execute_service accepts: DiagnosticSessionType 1..4,
\* EcuResetType 1..3.
accepted_types ==
    [s \in {"session_control", "ecu_reset"} |->
        IF s = "session_control" THEN {1, 2, 3, 4} ELSE {1, 2, 3}]

\* The match of execute_service on service_type, on the session get_client
\* returned, whose transport answers o: the requests sent and the Result. The parameter is session_type or
\* reset_type; a missing one or one that is not a u64 is rejected.
execute_service(request, o) ==
    IF request.service_type \notin DOMAIN accepted_types
    THEN [calls |-> <<>>, result |-> ErrResult("InvalidRequest", "Unknown service type", 0)]
    ELSE IF ~(request.parameter.some /\ as_u64_some(request.parameter.v))
    THEN [calls |-> <<>>, result |-> ErrResult("InvalidRequest", "Missing parameter", 0)]
    ELSE LET ty == as_u8(request.parameter.v.value)
             fn == IF request.service_type = "session_control"
                   THEN "diagnostic_session_control" ELSE "ecu_reset"
         IN
         IF ty \notin accepted_types[request.service_type]
         THEN [calls |-> <<>>, result |-> ErrResult("InvalidRequest", "Invalid type", 0)]
         ELSE LET raw == RequestResult(fn, o) IN
              [calls |-> <<TransportCall(fn, ty)>>,
               result |->
                   IF raw.status # "ok" THEN raw
                   ELSE OkResult([service_type |-> request.service_type,
                                  status |-> "success",
                                  results |-> IF request.service_type = "session_control"
                                              THEN <<48, 120>> \o UpperHex2(ty) ELSE <<>>])]

\* ------------------------------------------------------- handler requests
\* The body of a request: the action of a DtcManagementRequest, or the
\* service_type of a ServiceRequest with its session_type / reset_type
\* parameter; the other handlers of the model read no body.
NoBody == [name |-> "", parameter |-> [some |-> FALSE, v |-> JsonNull]]

\* The answer of a transport that returns no response.
NullOutcome == [out |-> "null", code |-> 0, resp |-> <<>>]

\* Service requests: session_control and ecu_reset with an accepted type, a
\* type outside the accepted ones, a type above 255, no parameter; and a
\* service_type that is no service.
ServiceBodies ==
    LET none == NoBody.parameter
        number(n) == [some |-> TRUE, v |-> JsonPosInt(U64Of(n))]
    IN  {[name |-> "session_control", parameter |-> number(3)],
         [name |-> "session_control", parameter |-> number(5)],
         [name |-> "session_control", parameter |-> none],
         [name |-> "ecu_reset", parameter |-> number(1)],
         [name |-> "ecu_reset", parameter |-> number(257)],
         [name |-> "nope", parameter |-> none]}

\* The requests of the handlers: the DTC actions are read, clear and one that
\* is no action; DTC and service requests address "engine".
HandlerRequests ==
    {[kind |-> k, comp |-> c, body |-> NoBody] :
        k \in {"read", "write", "routine"}, c \in ComponentIds}
    \cup {[kind |-> "dtcs", comp |-> "engine", body |-> [NoBody EXCEPT !.name = a]] :
            a \in {"read", "clear", "erase"}}
    \cup {[kind |-> "service", comp |-> "engine", body |-> b] : b \in ServiceBodies}

\* -------------------------------------------------------------------- Init
PoolInit ==
    /\ \E c \in Configs :
          /\ require_security_access = c.require
          /\ security_level = c.level
          /\ overflow_checks = c.checks
    /\ clients = [c \in ComponentIds |-> NoHandle]
    /\ poolLock = NoTask
    /\ nextHandle = 0
    /\ hstate = [h \in Handles |-> "unused"]
    /\ hcomp = [h \in Handles |-> ""]
    /\ refs = [h \in Handles |-> 0]
    /\ granted = [h \in Handles |-> FALSE]
    /\ evicted = {}
    /\ released = [h \in Handles |-> <<>>]
    /\ pc = [t \in Tasks |-> "idle"]
    /\ op = [t \in Tasks |-> [kind |-> "read", comp |-> "engine", body |-> NoBody]]
    /\ cur = [t \in Tasks |-> NoHandle]
    /\ log = [t \in Tasks |-> <<>>]
    /\ result = [t \in Tasks |-> NoResult]
    /\ drainQ = [t \in Tasks |-> {}]
    /\ opsStarted = 0

Init == PoolInit /\ SessionIdle /\ TranslatorIdle

\* ------------------------------------------------------------ task start
\* A request arrives (an HTTP handler, or a caller of the pool API) and the task
\* starts the operation k on component c (close_all names no component). Every
\* operation starts by taking the pool's write lock, so the start is part of the
\* step that takes it.
Start(t, k, c, b) ==
    /\ pc[t] = "idle"
    /\ opsStarted < MaxOps
    /\ opsStarted' = opsStarted + 1
    /\ op' = [op EXCEPT ![t] = [kind |-> k, comp |-> c, body |-> b]]

\* ------------------------------------------------- UdsClientPool::get_client
\* Takes the pool's write lock; a hit clones the Arc and returns (the lock is
\* released at return). A miss constructs the session (UdsClient::new ->
\* UdsClientHandle::new -> uds_client_create) and, still holding the lock, calls
\* connect on it.
GetClient(t, k, c, b) ==
    /\ Start(t, k, c, b)
    /\ PoolLockFree
    /\ \/ /\ InPool(c)
          /\ cur' = [cur EXCEPT ![t] = clients[c]]
          /\ refs' = [refs EXCEPT ![clients[c]] = @ + 1]
          /\ pc' = [pc EXCEPT ![t] = "dispatch"]
          /\ log' = [log EXCEPT ![t] = <<>>]
          /\ result' = [result EXCEPT ![t] = NoResult]
          /\ UNCHANGED <<poolLock, nextHandle, hstate, released, hcomp>>
       \/ /\ ~InPool(c)
          /\ pc' = pc
          /\ log' = [log EXCEPT ![t] = <<>>]
          /\ result' = [result EXCEPT ![t] =      \* uds_client_create returned null
                          ErrResult("Ffi", "Failed to create UDS client", 0)]
          /\ UNCHANGED <<poolLock, nextHandle, hstate, released, hcomp, refs, cur>>
       \/ /\ ~InPool(c)
          /\ nextHandle < MaxHandles
          /\ LET h == nextHandle + 1 IN
             /\ nextHandle' = h
             /\ hstate' = [hstate EXCEPT ![h] = "created"]
             /\ UNCHANGED released
             /\ hcomp' = [hcomp EXCEPT ![h] = c]
             /\ refs' = [refs EXCEPT ![h] = 1]
             /\ cur' = [cur EXCEPT ![t] = h]
             /\ log' = [log EXCEPT ![t] = <<Call("connect", h, 0, <<>>)>>]
          /\ poolLock' = t
          /\ pc' = [pc EXCEPT ![t] = "gc_connecting"]
          /\ result' = [result EXCEPT ![t] = NoResult]
    /\ UNCHANGED <<applied, apiVars, cfgVars, clients, granted, evicted, drainQ>>

\* An insert that does not wait for the connect to succeed.
ClientsInsertedAnyway(cl, c, h, o) == [cl EXCEPT ![c] = h]

\* The pool map after connect returned o: `?` returns before the insert on failure.
ClientsAfterConnect(cl, c, h, o) == IF o.out = "ok" THEN [cl EXCEPT ![c] = h] ELSE cl

\* uds_client_connect returns: on success the session is inserted and returned;
\* on failure `?` returns the error, the only Arc is dropped (Drop destroys the
\* native client) and nothing is inserted. The lock is released either way.
GetClientConnected(t) ==
    /\ pc[t] = "gc_connecting"
    /\ LET h == cur[t] IN
       \E o \in StatusOutcomes :
          /\ clients' = ClientsAfterConnect(clients, op[t].comp, h, o)
          /\ IF o.out = "ok"
             THEN /\ hstate' = [hstate EXCEPT ![h] = "connected"]
                  /\ UNCHANGED released
                  /\ refs' = [refs EXCEPT ![h] = @ + 1]
                  /\ pc' = [pc EXCEPT ![t] = "dispatch"]
                  /\ log' = [log EXCEPT ![t] = Returned(t, o)]
                  /\ UNCHANGED <<cur, result>>
             ELSE /\ hstate' = StateAfterDrop(hstate, refs, h)
                  /\ released' = ReleasedAfterDrop(released, refs, h)
                  /\ refs' = RefsAfterDrop(refs, h)
                  /\ cur' = [cur EXCEPT ![t] = NoHandle]
                  /\ Finish(t, RequestResult("connect", o))
                  /\ log' = [log EXCEPT ![t] = LastReturned(t, o)]
    /\ poolLock' = NoTask
    /\ UNCHANGED <<applied, apiVars, cfgVars, opsStarted, nextHandle, hcomp, granted, evicted, op, drainQ>>

\* ------------------------------------------------------ handler completion
\* The handler returns: its result is kept and its Arc<UdsClient> is dropped.
Complete(t, res) ==
    /\ Finish(t, res)
    /\ hstate' = StateAfterDrop(hstate, refs, cur[t])
    /\ released' = ReleasedAfterDrop(released, refs, cur[t])
    /\ refs' = RefsAfterDrop(refs, cur[t])
    /\ cur' = [cur EXCEPT ![t] = NoHandle]

\* ------------------------------------- UdsClient::read_data_by_identifier
\* (through SovdUdsTranslator::read_data_item): handle.read().await, then the
\* blocking native call.
ReadBegin(t) ==
    /\ pc[t] = "dispatch"
    /\ HandleReadable(cur[t])
    /\ op[t].kind = "read"
    /\ log' = [log EXCEPT ![t] =
                 Append(@, Call("read_data_by_identifier", cur[t], VIN, <<>>))]
    /\ pc' = [pc EXCEPT ![t] = "request"]
    /\ UNCHANGED <<applied, apiVars, cfgVars, opsStarted, clients, poolLock, nextHandle, hstate, released, hcomp, refs,
                   granted, evicted, op, cur, result, drainQ>>

\* UdsClient::routine_control (through SovdUdsTranslator::control_actuator).
RoutineBegin(t) ==
    /\ pc[t] = "dispatch"
    /\ HandleReadable(cur[t])
    /\ op[t].kind = "routine"
    /\ log' = [log EXCEPT ![t] =
                 Append(@, Call("routine_control", cur[t], StartRoutine, <<>>))]
    /\ pc' = [pc EXCEPT ![t] = "request"]
    /\ UNCHANGED <<applied, apiVars, cfgVars, opsStarted, clients, poolLock, nextHandle, hstate, released, hcomp, refs,
                   granted, evicted, op, cur, result, drainQ>>

\* manage_dtcs (handler), after get_client returned the session:
\* SovdUdsTranslator::manage_dtcs matches the action; "clear", "read" and
\* "freeze_frame" begin their request on the session (handle.read().await, then
\* the blocking native call), any other action returns Err(InvalidRequest) and
\* the Arc<UdsClient> is dropped at return.
DtcsBegin(t) ==
    /\ pc[t] = "dispatch"
    /\ op[t].kind = "dtcs"
    /\ LET sent == DtcCalls(op[t].body.name) IN
       IF sent = <<>>
       THEN /\ Complete(t, manage_dtcs(op[t].body.name, NullOutcome).result)
            /\ UNCHANGED log
       ELSE /\ HandleReadable(cur[t])
            /\ log' = [log EXCEPT ![t] =
                         Append(@, Call(sent[1].fn, cur[t], sent[1].arg, <<>>))]
            /\ pc' = [pc EXCEPT ![t] = "request"]
            /\ UNCHANGED <<hstate, released, refs, cur, result>>
    /\ UNCHANGED <<applied, apiVars, cfgVars, opsStarted, clients, poolLock, nextHandle, hcomp,
                   granted, evicted, op, drainQ>>

\* The ServiceRequest of a service operation.
ServiceRequest(o) == [service_type |-> o.body.name, parameter |-> o.body.parameter]

\* execute_service with service_type "session_control" or "ecu_reset", after
\* get_client returned the session: a missing parameter and a type outside the
\* accepted ones return Err(InvalidRequest) (the Arc<UdsClient> is dropped at
\* return); otherwise the request begins on the session.
ServiceBegin(t) ==
    /\ pc[t] = "dispatch"
    /\ op[t].kind = "service"
    /\ op[t].body.name \in DOMAIN accepted_types
    /\ LET r == execute_service(ServiceRequest(op[t]), NullOutcome) IN
       IF r.calls = <<>>
       THEN /\ Complete(t, r.result)
            /\ UNCHANGED log
       ELSE /\ HandleReadable(cur[t])
            /\ log' = [log EXCEPT ![t] =
                         Append(@, Call(r.calls[1].fn, cur[t], r.calls[1].arg, <<>>))]
            /\ pc' = [pc EXCEPT ![t] = "request"]
            /\ UNCHANGED <<hstate, released, refs, cur, result>>
    /\ UNCHANGED <<applied, apiVars, cfgVars, opsStarted, clients, poolLock, nextHandle, hcomp,
                   granted, evicted, op, drainQ>>

\* execute_service, after get_client returned the session: the match on
\* service_type falls to the default arm, which returns Err(InvalidRequest);
\* the Arc<UdsClient> is dropped at return.
UnknownService(t) ==
    /\ pc[t] = "dispatch"
    /\ op[t].kind = "service"
    /\ op[t].body.name \notin DOMAIN accepted_types
    /\ Complete(t, execute_service(ServiceRequest(op[t]), NullOutcome).result)
    /\ UNCHANGED <<applied, apiVars, cfgVars, opsStarted, clients, poolLock, nextHandle, hcomp, granted, evicted,
                   op, log, drainQ>>

\* The Result of the handler of operation o whose request returned ans: the
\* handlers return the response the translator (execute_service: the handler
\* itself) builds from the answer. get_data_item_value reads the item "vin",
\* control_actuator starts the actuator "fuel_pump" with no value; the write
\* path returns the Result of the session.
HandlerResult(o, fn, ans) ==
    IF o.kind = "dtcs" THEN manage_dtcs(o.body.name, ans).result
    ELSE IF o.kind = "service" THEN execute_service(ServiceRequest(o), ans).result
    ELSE IF o.kind = "read" THEN read_data_item("vin", ans).result
    ELSE IF o.kind = "routine"
    THEN control_actuator([actuator_id |-> "fuel_pump", action |-> "start",
                           value |-> NoBody.parameter], ans).result
    ELSE RequestResult(fn, ans)

\* The native request returns; the session maps the outcome to its Result and
\* returns it to the handler, which returns it to its caller.
RequestReturn(t) ==
    /\ pc[t] = "request"
    /\ \E o \in RequestOutcomes(Last(log[t])) :
          /\ Complete(t, HandlerResult(op[t], Last(log[t]).fn, o))
          /\ log' = [log EXCEPT ![t] = LastReturned(t, o)]
    /\ UNCHANGED <<applied, apiVars, cfgVars, opsStarted, clients, poolLock, nextHandle, hcomp, granted, evicted,
                   op, drainQ>>

\* --------------------------------------- UdsClient::perform_security_access
\* u8 arithmetic of `security_level * 2 - 1` and `security_level * 2`: an
\* overflowing operation panics when the build checks overflow and wraps
\* otherwise. (`security_level * 2` of the send-key step overflows only where
\* the request-seed step has overflowed already.)
SeedOverflows(l) == l * 2 > 255 \/ l * 2 - 1 < 0
RequestSeedType(l) == (((l * 2) % 256) - 1) % 256
SendKeyType(l) == (l * 2) % 256

\* Bitwise exclusive or of two bytes.
RECURSIVE XorBits(_, _, _)
XorBits(a, b, n) ==
    IF n = 0 THEN 0
    ELSE (((a % 2) + (b % 2)) % 2) + 2 * XorBits(a \div 2, b \div 2, n - 1)
Xor8(a, b) == XorBits(a, b, 8)

\* A key that is the seed itself.
key_without_derivation(seed) == seed

\* UdsClient::calculate_security_key: every seed byte XOR 0xAA.
calculate_security_key(seed) == [i \in 1..Len(seed) |-> Xor8(seed[i], XorConstant)]

\* A handshake that goes on whatever the step returned.
SecurityAccessErrorIgnored(o) == FALSE

\* A security-access step has failed (`?` on its Result).
SecurityAccessFailed(o) == o.out # "ok"

\* A handshake that sends a key for every seed, the empty one too.
SeedNeverEmpty(seed) == FALSE

\* seed.is_empty(): security access is already granted.
AlreadyGranted(seed) == seed = <<>>

\* The write request of write_data_by_identifier.
WriteCall(t) == Call("write_data_by_identifier", cur[t], VIN, WritePayload)

\* UdsClient::write_data_by_identifier up to its first native call: without
\* require_security_access the write request; with it the request-seed call of
\* perform_security_access, or a panic when its sub-function overflows.
WriteBegin(t) ==
    /\ pc[t] = "dispatch"
    /\ HandleReadable(cur[t])
    /\ op[t].kind = "write"
    /\ IF ~require_security_access
       THEN /\ log' = [log EXCEPT ![t] = Append(@, WriteCall(t))]
            /\ pc' = [pc EXCEPT ![t] = "request"]
            /\ UNCHANGED <<hstate, released, refs, cur, result>>
       ELSE IF SeedOverflows(security_level) /\ overflow_checks
       THEN /\ Complete(t, PanicResult)
            /\ UNCHANGED log
       ELSE /\ log' = [log EXCEPT ![t] =
                         Append(@, Call("security_access", cur[t],
                                        RequestSeedType(security_level), <<>>))]
            /\ pc' = [pc EXCEPT ![t] = "seed"]
            /\ UNCHANGED <<hstate, released, refs, cur, result>>
    /\ UNCHANGED <<applied, apiVars, cfgVars, opsStarted, clients, poolLock, nextHandle, hcomp, granted, evicted,
                   op, drainQ>>

\* The request-seed call returns: an error fails the write; an empty seed means
\* access is already granted and the write request begins; otherwise the key is
\* computed and the send-key call begins (on the same read guard).
SeedReturn(t) ==
    /\ pc[t] = "seed"
    /\ \E o \in RequestOutcomes(Last(log[t])) :
          IF SecurityAccessFailed(o)
          THEN /\ Complete(t, RequestResult("security_access", o))
               /\ log' = [log EXCEPT ![t] = LastReturned(t, o)]
               /\ UNCHANGED granted
          ELSE IF AlreadyGranted(o.resp)
          THEN /\ log' = [log EXCEPT ![t] =
                            Append(Returned(t, o), WriteCall(t))]
               /\ pc' = [pc EXCEPT ![t] = "request"]
               /\ granted' = [granted EXCEPT ![cur[t]] = TRUE]
               /\ UNCHANGED <<hstate, released, refs, cur, result>>
          ELSE /\ log' = [log EXCEPT ![t] =
                            Append(Returned(t, o),
                                   Call("security_access", cur[t],
                                        SendKeyType(security_level),
                                        calculate_security_key(o.resp)))]
               /\ pc' = [pc EXCEPT ![t] = "key"]
               /\ UNCHANGED <<hstate, released, refs, cur, result, granted>>
    /\ UNCHANGED <<applied, apiVars, cfgVars, opsStarted, clients, poolLock, nextHandle, hcomp, evicted, op, drainQ>>

\* The send-key call returns: an error fails the write, success lets the write
\* request begin.
KeyReturn(t) ==
    /\ pc[t] = "key"
    /\ \E o \in RequestOutcomes(Last(log[t])) :
          IF SecurityAccessFailed(o)
          THEN /\ Complete(t, RequestResult("security_access", o))
               /\ log' = [log EXCEPT ![t] = LastReturned(t, o)]
               /\ UNCHANGED granted
          ELSE /\ log' = [log EXCEPT ![t] =
                            Append(Returned(t, o), WriteCall(t))]
               /\ pc' = [pc EXCEPT ![t] = "request"]
               /\ granted' = [granted EXCEPT ![cur[t]] = TRUE]
               /\ UNCHANGED <<hstate, released, refs, cur, result>>
    /\ UNCHANGED <<applied, apiVars, cfgVars, opsStarted, clients, poolLock, nextHandle, hcomp, evicted, op, drainQ>>

\* ---------------------------------------------- UdsClientPool::remove_client
\* A removal that leaves the entry in the map.
ClientsKeptOnRemove(cl, c) == cl

\* clients.remove(component_id).
ClientsAfterRemove(cl, c) == [cl EXCEPT ![c] = NoHandle]

\* Takes the pool's write lock and removes the entry; when there was one, calls
\* disconnect on it while still holding the lock.
RemoveClient(t, c) ==
    /\ Start(t, "remove_client", c, NoBody)
    /\ PoolLockFree
    /\ LET h == clients[c] IN
       IF InPool(c)
       THEN /\ HandleReadable(h)
            /\ clients' = ClientsAfterRemove(clients, c)
            /\ evicted' = evicted \cup {h}
            /\ cur' = [cur EXCEPT ![t] = h]
            /\ log' = [log EXCEPT ![t] = <<Call("disconnect", h, 0, <<>>)>>]
            /\ poolLock' = t
            /\ pc' = [pc EXCEPT ![t] = "rm_disconnecting"]
            /\ result' = [result EXCEPT ![t] = NoResult]
       ELSE /\ log' = [log EXCEPT ![t] = <<>>]
            /\ result' = [result EXCEPT ![t] = OkResult(<<>>)]
            /\ UNCHANGED <<clients, evicted, cur, poolLock, pc>>
    /\ UNCHANGED <<applied, apiVars, cfgVars, nextHandle, hstate, released, hcomp, refs, granted, drainQ>>

\* The state of the native client after uds_client_disconnect returned o.
AfterDisconnect(s, h, o) == IF o.out = "ok" THEN [s EXCEPT ![h] = "disconnected"] ELSE s

\* uds_client_disconnect returns: its error, if any, is returned (`?`); the
\* removed Arc is dropped and the lock released.
RemoveDisconnected(t) ==
    /\ pc[t] = "rm_disconnecting"
    /\ LET h == cur[t] IN
       \E o \in StatusOutcomes :
          /\ hstate' = StateAfterDrop(AfterDisconnect(hstate, h, o), refs, h)
          /\ released' = ReleasedAfterDrop(released, refs, h)
          /\ refs' = RefsAfterDrop(refs, h)
          /\ Finish(t, RequestResult("disconnect", o))
          /\ log' = [log EXCEPT ![t] = LastReturned(t, o)]
    /\ cur' = [cur EXCEPT ![t] = NoHandle]
    /\ poolLock' = NoTask
    /\ UNCHANGED <<applied, apiVars, cfgVars, opsStarted, clients, nextHandle, hcomp, granted, evicted, op, drainQ>>

\* -------------------------------------------------- UdsClientPool::close_all
\* Takes the pool's write lock and drains the map; the sessions are then
\* disconnected one after the other (in the map's iteration order, which is
\* arbitrary), the lock being held until the last one returned.
CloseAll(t) ==
    /\ Start(t, "close_all", "", NoBody)
    /\ PoolLockFree
    /\ LET drained == {clients[c] : c \in {x \in ComponentIds : InPool(x)}} IN
       /\ clients' = [c \in ComponentIds |-> NoHandle]
       /\ evicted' = evicted \cup drained
       /\ IF drained = {}
          THEN /\ log' = [log EXCEPT ![t] = <<>>]
               /\ result' = [result EXCEPT ![t] = OkResult(<<>>)]
               /\ UNCHANGED <<cur, poolLock, drainQ, pc>>
          ELSE \E h \in drained :
               /\ HandleReadable(h)
               /\ drainQ' = [drainQ EXCEPT ![t] = drained \ {h}]
               /\ cur' = [cur EXCEPT ![t] = h]
               /\ log' = [log EXCEPT ![t] = <<Call("disconnect", h, 0, <<>>)>>]
               /\ poolLock' = t
               /\ pc' = [pc EXCEPT ![t] = "ca_disconnecting"]
               /\ result' = [result EXCEPT ![t] = NoResult]
    /\ UNCHANGED <<applied, apiVars, cfgVars, nextHandle, hstate, released, hcomp, refs, granted>>

\* A close_all that returns the error of its last disconnect.
CloseAllPropagates(o) == RequestResult("disconnect", o)

\* The result of close_all after its last disconnect returned o: `if let Err(e)`
\* logs the error and goes on; the function ends with Ok(()).
CloseAllResult(o) == OkResult(<<>>)

\* A disconnect of close_all returns: an error is logged and swallowed, the
\* drained Arc is dropped, and the next session is disconnected; after the last
\* one the lock is released and Ok returned.
CloseAllDisconnected(t) ==
    /\ pc[t] = "ca_disconnecting"
    /\ LET h == cur[t] IN
       \E o \in StatusOutcomes :
          /\ hstate' = StateAfterDrop(AfterDisconnect(hstate, h, o), refs, h)
          /\ released' = ReleasedAfterDrop(released, refs, h)
          /\ refs' = RefsAfterDrop(refs, h)
          /\ IF drainQ[t] = {}
             THEN /\ cur' = [cur EXCEPT ![t] = NoHandle]
                  /\ poolLock' = NoTask
                  /\ Finish(t, CloseAllResult(o))
                  /\ log' = [log EXCEPT ![t] = LastReturned(t, o)]
                  /\ UNCHANGED drainQ
             ELSE \E n \in drainQ[t] :
                  /\ HandleReadable(n)
                  /\ drainQ' = [drainQ EXCEPT ![t] = @ \ {n}]
                  /\ cur' = [cur EXCEPT ![t] = n]
                  /\ log' = [log EXCEPT ![t] =
                               Append(Returned(t, o), Call("disconnect", n, 0, <<>>))]
                  /\ UNCHANGED <<poolLock, pc, result>>
    /\ UNCHANGED <<applied, apiVars, cfgVars, opsStarted, clients, nextHandle, hcomp, granted, evicted, op>>

\* -------------------------------------------------------------------- Next
Next ==
    \/ \E t \in Tasks, r \in HandlerRequests : GetClient(t, r.kind, r.comp, r.body)
    \/ \E t \in Tasks : GetClientConnected(t)
    \/ \E t \in Tasks : ReadBegin(t)
    \/ \E t \in Tasks : RoutineBegin(t)
    \/ \E t \in Tasks : DtcsBegin(t)
    \/ \E t \in Tasks : ServiceBegin(t)
    \/ \E t \in Tasks : UnknownService(t)
    \/ \E t \in Tasks : WriteBegin(t)
    \/ \E t \in Tasks : SeedReturn(t)
    \/ \E t \in Tasks : KeyReturn(t)
    \/ \E t \in Tasks : RequestReturn(t)
    \/ \E t \in Tasks, c \in ComponentIds : RemoveClient(t, c)
    \/ \E t \in Tasks : RemoveDisconnected(t)
    \/ \E t \in Tasks : CloseAll(t)
    \/ \E t \in Tasks : CloseAllDisconnected(t)

Spec == Init /\ [][Next]_vars

\* The steps by which the operation task t has started goes on: the return of
\* the native call it waits for, and the next step of its own code once the
\* lock it asks for is granted.
Continue(t) ==
    \/ GetClientConnected(t)
    \/ ReadBegin(t)
    \/ RoutineBegin(t)
    \/ DtcsBegin(t)
    \/ ServiceBegin(t)
    \/ UnknownService(t)
    \/ WriteBegin(t)
    \/ SeedReturn(t)
    \/ KeyReturn(t)
    \/ RequestReturn(t)
    \/ RemoveDisconnected(t)
    \/ CloseAllDisconnected(t)

\* The pool where every native call returns and every task that can go on is
\* scheduled again (the tokio runtime polls every woken task; the RwLocks of
\* tokio are fair).
SpecLive == Init /\ [][Next]_vars /\ \A t \in Tasks : WF_vars(Continue(t))

\* ---------------------------------------------- specification of one session
\* One UdsClient driven through its public API (new, connect, disconnect,
\* read_data_by_identifier, diagnostic_session_control, drop), with the default
\* configuration, and the response decoder applied to frames.
SessionInit ==
    /\ PoolInit
    /\ ~require_security_access /\ security_level = 1 /\ ~overflow_checks
    /\ SessionIdle
    /\ TranslatorIdle

\* UdsClient::new: the address is looked up, then UdsClientHandle::new creates
\* the native client (null: Err(Ffi), and no UdsClient).
SNew(c) ==
    /\ sess = NoSession /\ nstate = "none"
    /\ Len(calls) < MaxCalls
    /\ \/ /\ calls' = Append(calls, ApiCall("new", 0, nstate, nstate,
                              ErrResult("Ffi", "Failed to create UDS client", 0)))
          /\ UNCHANGED <<sess, nstate>>
       \/ /\ sess' = [handle |-> 1, component_id |-> c,
                       ecu_address |-> get_component_address(c)]
          /\ nstate' = "created"
          /\ calls' = Append(calls, ApiCall("new", 0, nstate, "created", OkResult(<<>>)))
    /\ UNCHANGED <<applied, poolVars, decoded>>

\* UdsClient::connect: uds_client_connect is called whatever the state of the
\* native client; its status is the result.
SConnect ==
    /\ sess # NoSession
    /\ Len(calls) < MaxCalls
    /\ \E o \in StatusOutcomes :
          LET after == IF o.out = "ok" THEN "connected" ELSE nstate IN
          /\ nstate' = after
          /\ calls' = Append(calls, ApiCall("connect", 0, nstate, after,
                                            RequestResult("connect", o)))
    /\ UNCHANGED <<applied, poolVars, sess, decoded>>

\* UdsClient::disconnect: uds_client_disconnect is called whatever the state of
\* the native client; its status is the result.
SDisconnect ==
    /\ sess # NoSession
    /\ Len(calls) < MaxCalls
    /\ \E o \in StatusOutcomes :
          LET after == IF o.out = "ok" THEN "disconnected" ELSE nstate IN
          /\ nstate' = after
          /\ calls' = Append(calls, ApiCall("disconnect", 0, nstate, after,
                                            RequestResult("disconnect", o)))
    /\ UNCHANGED <<applied, poolVars, sess, decoded>>

\* UdsClient::read_data_by_identifier: one native call, its outcome mapped to
\* the Result.
SRead ==
    /\ sess # NoSession
    /\ Len(calls) < MaxCalls
    /\ \E o \in ApiOutcomes(ReadPayload) :
          calls' = Append(calls, ApiCall("read_data_by_identifier", VIN, nstate, nstate,
                                         RequestResult("read_data_by_identifier", o)))
    /\ UNCHANGED <<applied, poolVars, sess, nstate, decoded>>

\* UdsClient::diagnostic_session_control: one native call, its outcome mapped to
\* the Result; no field of the UdsClient is written.
SSessionControl(ty) ==
    /\ sess # NoSession
    /\ Len(calls) < MaxCalls
    /\ \E o \in ApiOutcomes(<<ty>>) :
          calls' = Append(calls, ApiCall("diagnostic_session_control", ty, nstate, nstate,
                                         RequestResult("diagnostic_session_control", o)))
    /\ UNCHANGED <<applied, poolVars, sess, nstate, decoded>>

\* The UdsClient is dropped: Drop for UdsClientHandle calls disconnect, ignores
\* its result, and destroys the native client.
SDrop ==
    /\ sess # NoSession
    /\ Len(calls) < MaxCalls
    /\ \E o \in StatusOutcomes :
          calls' = Append(calls, ApiCall("drop", 0, nstate, "destroyed",
                                         RequestResult("disconnect", o)))
    /\ nstate' = "destroyed"
    /\ sess' = NoSession
    /\ UNCHANGED <<applied, poolVars, decoded>>

\* A response frame is decoded.
SDecode(f) ==
    /\ decoded' = from_bytes(f)
    /\ UNCHANGED <<applied, poolVars, sess, nstate, calls>>

SessionNext ==
    \/ \E c \in ComponentIds : SNew(c)
    \/ SConnect
    \/ SDisconnect
    \/ SRead
    \/ \E ty \in SessionTypes : SSessionControl(ty)
    \/ SDrop
    \/ \E f \in Frames : SDecode(f)

SpecSession == SessionInit /\ [][SessionNext]_vars

\* ------------------------------------- specification of codec and translator
\* The functions of the codec (models/uds.rs) and of the translator
\* (translation/mod.rs) applied to inputs: the initial state holds the input,
\* the action applies the function to it.
Application(fn, arg) == [fn |-> fn, arg |-> arg, done |-> FALSE, out |-> <<>>]

\* The input waits for the function fn.
Pending(fn) == applied.fn = fn /\ ~applied.done

\* The application with its output.
Applied(out) == [applied EXCEPT !.done = TRUE, !.out = out]

AllBytes == 0..255
ByteSamples == {0, 1, 16, 34, 35, 49, 98, 120, 127, 171, 255}
CodecPayloads == {<<>>, <<1>>, <<241, 144>>, <<127, 34, 49>>}
\* Requests whose response is decoded: read VIN (0x22), extended session (0x10).
Requests == {UdsRequest(34, <<241, 144>>), UdsRequest(16, <<3>>)}
\* Frames a transport may answer with: those of Frames, a positive answer to
\* another service, and negative responses with and without trailing bytes.
ResponseFrames ==
    Frames \cup {<<80, 3>>, <<127, 127, 127, 127>>}
    \cup {<<127, s, n>> \o tr : s \in ByteSamples, n \in ByteSamples,
                               tr \in {<<>>, <<0>>, <<98, 241>>}}

\* A byte buffer of length n.
Pattern(seed, n) == [i \in 1..n |-> (seed + 37 * i * i) % 256]
DtcBuffers == {Pattern(seed, n) : seed \in {1, 130, 200}, n \in 0..MaxBufLen}
DtcCodes ==
    {<<>>, <<1>>, <<1, 0>>} \cup {<<b1, b2, 0>> : b1 \in AllBytes, b2 \in ByteSamples}
DataTypes == {"string", "number", "boolean", "hex", "bytes"}
\* Raw data of a read: empty, ASCII text, bytes that are not UTF-8, two-byte
\* UTF-8, an echoed DID followed by text, and lengths 1 to 5.
RawData ==
    {<<>>, <<0>>, <<1>>, <<87>>, <<87, 48>>, <<255, 254, 253>>, <<195, 169>>,
     <<241, 144, 87>>, <<241, 144, 87, 48>>, <<1, 2>>, <<255, 255>>, <<1, 2, 3>>,
     <<1, 2, 3, 4>>, <<255, 255, 255, 255>>, <<0, 0, 1, 0>>, <<1, 2, 3, 4, 5>>}
\* The `categories` of the query after split(','): absent, or its pieces.
Queries ==
    {[some |-> FALSE, pieces |-> <<>>]}
    \cup {[some |-> TRUE, pieces |-> p] :
            p \in {<<"">>, <<"identData">>, <<"nope">>, <<" identData ">>,
                   <<"identData", "identData">>, <<"identData", "nope">>,
                   <<"nope", " ">>}}
DataItemIds == DOMAIN did_mappings \cup {"speed"}
DtcActions == {"clear", "read", "freeze_frame", "erase", ""}
\* Answers of the transport to a read (data) and to a clear (no data).
TransportAnswers(fn) ==
    {[out |-> "null", code |-> 0, resp |-> <<>>]}
    \cup {[out |-> "err", code |-> e, resp |-> <<>>] : e \in ErrorCodes}
    \cup {[out |-> "ok", code |-> 0, resp |-> d] :
            d \in IF fn = "read_data_by_identifier" THEN RawData
                  ELSE IF fn = "read_dtc_information" THEN DtcBuffers
                  ELSE {<<>>}}

ActuatorIds == {"fuel_pump", "cooling_fan", "throttle", "horn"}
ActuatorActions == {"start", "stop", "toggle"}
\* Numbers of a request body: around the limits of 1, 2 and 4 bytes, and above
\* u32::MAX (2^32 and 2^32 + 257).
BodyNumbers ==
    {U64Of(n) : n \in {0, 1, 2, 3, 4, 5, 255, 256, 257, 260, 65535, 65536, 16909060}}
    \cup {U64(U32(0, 0), U32(65535, 65535)), U64(U32(0, 1), U32(0, 0)),
          U64(U32(0, 1), U32(0, 257))}
BodyValues ==
    {JsonPosInt(v) : v \in BodyNumbers}
    \cup {JsonNegInt, JsonFloat, JsonNull, JsonArray, JsonBool(TRUE), JsonBool(FALSE),
          JsonString(<<>>), JsonString(<<111, 110>>)}
\* Option<serde_json::Value>.
OptionalValues == {[some |-> FALSE, v |-> JsonNull]} \cup {[some |-> TRUE, v |-> v] : v \in BodyValues}

TranslatorInputs ==
    {Application("round_trip", UdsRequest(s, p)) : s \in AllBytes, p \in CodecPayloads}
    \cup {Application("from_bytes", [request |-> r, frame |-> f]) :
            r \in Requests, f \in ResponseFrames}
    \cup {Application("parse_dtc_data", b) : b \in DtcBuffers}
    \cup {Application("format_dtc", b) : b \in DtcCodes}
    \cup {Application("convert_uds_data_to_sovd", [data |-> d, data_type |-> ty]) :
            d \in RawData, ty \in DataTypes}
    \cup {Application("get_component_data", [query |-> q, keys |-> k]) :
            q \in Queries, k \in KeyOrders}
    \cup {Application("read_data_item", [id |-> i, answer |-> o]) :
            i \in DataItemIds, o \in TransportAnswers("read_data_by_identifier")}
    \cup {Application("serialize_value_to_bytes", v) : v \in BodyValues}
    \cup {Application("control_actuator",
                      [request |-> [actuator_id |-> a, action |-> c, value |-> v],
                       answer |-> o]) :
            a \in ActuatorIds, c \in ActuatorActions, v \in OptionalValues,
            o \in TransportAnswers("routine_control")}
    \cup UNION {{Application("manage_dtcs", [action |-> a, answer |-> o]) :
                    o \in TransportAnswers(IF a = "clear"
                                           THEN "clear_diagnostic_information"
                                           ELSE "read_dtc_information")} :
                a \in DtcActions}

TranslatorInit ==
    /\ PoolInit
    /\ ~require_security_access /\ security_level = 1 /\ ~overflow_checks
    /\ SessionIdle
    /\ applied \in TranslatorInputs

\* A request is encoded and the frame is decoded.
RoundTrip ==
    /\ Pending("round_trip")
    /\ applied' = Applied([frame |-> to_bytes(applied.arg),
                           response |-> from_bytes(to_bytes(applied.arg))])
    /\ UNCHANGED <<poolVars, apiVars>>

\* The frame received for a request is decoded.
Decode ==
    /\ Pending("from_bytes")
    /\ applied' = Applied(from_bytes(applied.arg.frame))
    /\ UNCHANGED <<poolVars, apiVars>>

ParseDtc ==
    /\ Pending("parse_dtc_data")
    /\ applied' = Applied(parse_dtc_data(applied.arg))
    /\ UNCHANGED <<poolVars, apiVars>>

FormatDtc ==
    /\ Pending("format_dtc")
    /\ applied' = Applied(format_dtc(applied.arg))
    /\ UNCHANGED <<poolVars, apiVars>>

Convert ==
    /\ Pending("convert_uds_data_to_sovd")
    /\ applied' = Applied(convert_uds_data_to_sovd(applied.arg.data, applied.arg.data_type))
    /\ UNCHANGED <<poolVars, apiVars>>

\* GET /components/:id/data.
ListDataItems ==
    /\ Pending("get_component_data")
    /\ applied' = Applied(get_component_data(applied.arg.query, applied.arg.keys))
    /\ UNCHANGED <<poolVars, apiVars>>

ReadDataItem ==
    /\ Pending("read_data_item")
    /\ applied' = Applied(read_data_item(applied.arg.id, applied.arg.answer))
    /\ UNCHANGED <<poolVars, apiVars>>

ManageDtcs ==
    /\ Pending("manage_dtcs")
    /\ applied' = Applied(manage_dtcs(applied.arg.action, applied.arg.answer))
    /\ UNCHANGED <<poolVars, apiVars>>

SerializeValue ==
    /\ Pending("serialize_value_to_bytes")
    /\ applied' = Applied(serialize_value_to_bytes(applied.arg))
    /\ UNCHANGED <<poolVars, apiVars>>

ControlActuator ==
    /\ Pending("control_actuator")
    /\ applied' = Applied(control_actuator(applied.arg.request, applied.arg.answer))
    /\ UNCHANGED <<poolVars, apiVars>>

TranslatorNext ==
    \/ RoundTrip
    \/ Decode
    \/ ParseDtc
    \/ FormatDtc
    \/ Convert
    \/ ListDataItems
    \/ ReadDataItem
    \/ ManageDtcs
    \/ SerializeValue
    \/ ControlActuator

SpecTranslator == TranslatorInit /\ [][TranslatorNext]_vars

\* ================================================================== claims
\* Sessions the pool has handed out and not removed.
Live(h) == hstate[h] = "connected" /\ h \notin evicted
\* The task is inside a handler that obtained its session from get_client.
HoldsSession(t) == pc[t] \in {"dispatch", "request", "seed", "key"}
\* The calls of one native function among the calls of the task's operation in
\* progress.
CallsOf(t, fn) == SelectSeq(log[t], LAMBDA e : e.fn = fn)
SecCalls(t) == CallsOf(t, "security_access")
Finished(t) == pc[t] = "idle" /\ result[t].status # "none"

\* C1: at most one native request is in progress on a session's handle at any
\* time (requests to the same ECU are strictly serialised).
C1_AtMostOneInFlight ==
    \A h \in Handles : Cardinality({t \in Tasks : InRequestOn(t, h)}) <= 1

\* C2: pool uniqueness. Among the sessions the pool has not removed, at most one
\* per component id was constructed and connected, it is the one the pool map
\* holds, and every task that got a session from get_client holds that one.
C2_PoolUniqueness ==
    /\ \A h1, h2 \in Handles :
          (Live(h1) /\ Live(h2) /\ hcomp[h1] = hcomp[h2]) => h1 = h2
    /\ \A h \in Handles : Live(h) => clients[hcomp[h]] = h
    /\ \A t \in Tasks :
          (HoldsSession(t) /\ cur[t] \notin evicted) =>
              /\ hcomp[cur[t]] = op[t].comp
              /\ clients[op[t].comp] = cur[t]

\* Two tasks asked for the same component and hold the same session, the only
\* one constructed.
C2_Witness ==
    \E t1, t2 \in Tasks :
        /\ t1 # t2
        /\ HoldsSession(t1) /\ HoldsSession(t2)
        /\ cur[t1] = cur[t2]
        /\ nextHandle = 1
        /\ evicted = {}

\* C3: the pool lock is never held while a native connect, disconnect or request
\* is in progress.
C3_PoolLockNeverAcrossIO ==
    \A t \in Tasks : poolLock = t => ~InCall(t)

\* C4: no native request is in progress on a handle while or after close_all
\* disconnects it.
C4_CloseAllAfterInFlight ==
    \A t1, t2 \in Tasks :
        op[t1].kind = "close_all" =>
            \A i \in 1..Len(log[t1]) :
                log[t1][i].fn = "disconnect" => ~InRequestOn(t2, log[t1][i].h)

\* The write request of a gated write is in progress on a session that answered
\* the seed request with a seed (a locked session).
GatedWriteSent(t) ==
    /\ op[t].kind = "write"
    /\ require_security_access
    /\ pc[t] = "request"
    /\ ~(Len(SecCalls(t)) > 0 /\ SecCalls(t)[1].out = "ok" /\ SecCalls(t)[1].resp = <<>>)

\* The requests of the operation are the two security-access calls sub1 and
\* sub2, both successful, and then the write.
HandshakeThenWrite(t, sub1, sub2) ==
    LET reqs == SelectSeq(log[t], LAMBDA e : e.fn \in RequestFns) IN
    /\ Len(reqs) = 3
    /\ reqs[1].fn = "security_access" /\ reqs[1].arg = sub1 /\ reqs[1].data = <<>>
    /\ reqs[1].out = "ok"
    /\ reqs[2].fn = "security_access" /\ reqs[2].arg = sub2
    /\ reqs[2].out = "ok"
    /\ reqs[3].fn = "write_data_by_identifier"

\* C5: security gate. A gated write on a locked session issues exactly two
\* security-access requests, sub-function 2L-1 then 2L, both successful, before
\* the write request.
C5_SecurityGate ==
    \A t \in Tasks :
        GatedWriteSent(t) =>
            HandshakeThenWrite(t, 2 * security_level - 1, 2 * security_level)

\* The same for the levels whose sub-functions 2L-1 and 2L are bytes.
C5_SecurityGateValidLevels ==
    \A t \in Tasks :
        (GatedWriteSent(t) /\ security_level \in 1..127) =>
            HandshakeThenWrite(t, 2 * security_level - 1, 2 * security_level)

\* The call that returns in a step of task t, as the step records it.
ReturnedCall(t) ==
    IF pc'[t] = "idle" THEN Last(log'[t]) ELSE log'[t][Len(log[t])]

\* The step in which a security-access call of t returns a failure.
SecFailStep(t) ==
    /\ pc[t] \in {"seed", "key"}
    /\ log'[t] # log[t]
    /\ ReturnedCall(t).out \in {"null", "err"}

\* C6: when the seed request or the key send fails, the write operation fails
\* with that error, no write request is sent, and the session stays locked.
C6_GateFailure ==
    [][\A t \in Tasks :
          SecFailStep(t) =>
              /\ pc'[t] = "idle"
              /\ result'[t].status = "err"
              /\ result'[t].error = "UdsCommunication"
              /\ result'[t].code = ReturnedCall(t).code
              /\ result'[t].msg = IF ReturnedCall(t).out = "null"
                                  THEN "Null response received"
                                  ELSE "Security access failed with error code"
              /\ Len(SelectSeq(log'[t],
                        LAMBDA e : e.fn = "write_data_by_identifier")) = 0
              /\ granted' = granted]_vars

\* A gated write has failed on its send-key step and another on its seed
\* request, each with the error of the step, and no session is unlocked.
C6_Witness ==
    \E t1, t2 \in Tasks :
        /\ Finished(t1) /\ op[t1].kind = "write"
        /\ Finished(t2) /\ op[t2].kind = "write"
        /\ security_level = 1
        /\ log[t1] # <<>> /\ log[t2] # <<>>
        /\ Last(log[t1]).fn = "security_access"
        /\ Last(log[t1]).arg = 2
        /\ Last(log[t1]).out = "err"
        /\ result[t1].code = BusyRepeatRequest
        /\ Last(log[t2]).fn = "security_access"
        /\ Last(log[t2]).arg = 1
        /\ Last(log[t2]).out = "null"
        /\ result[t2].msg = "Null response received"
        /\ \A h \in Handles : ~granted[h]

\* C7: once a session is unlocked, later writes on it issue no security-access
\* request.
C7_NoHandshakeOnceUnlocked ==
    [][\A t \in Tasks :
          (pc[t] = "dispatch" /\ pc'[t] = "seed") => ~granted[cur[t]]]_vars

\* C8: with require_security_access, no routine-control request is sent on a
\* session before security access was granted on it.
C8_RoutineGated ==
    \A t \in Tasks :
        \A i \in 1..Len(log[t]) :
            (require_security_access /\ log[t][i].fn = "routine_control")
                => granted[log[t][i].h]

\* The step in which the read request of t returns and the read operation ends.
ReadEnds(t) ==
    /\ pc[t] = "request" /\ pc'[t] = "idle"
    /\ Last(log[t]).fn = "read_data_by_identifier"

\* C9: a read that fails with a transport error (a null response) was attempted
\* 1 + max_retries times before the error surfaced.
C9_RetryOnTransportFailure ==
    [][\A t \in Tasks :
          (ReadEnds(t) /\ ReturnedCall(t).out = "null")
              => Len(CallsOf(t, "read_data_by_identifier")) = 1 + max_retries]_vars

\* C10: a negative response is not retried, except 0x21 (busy-repeat-request),
\* after which the request is issued exactly once more.
C10_BusyRepeatRetriedOnce ==
    [][\A t \in Tasks :
          LET reads == CallsOf(t, "read_data_by_identifier")
              first == IF Len(reads) = 1 THEN ReturnedCall(t) ELSE reads[1]
          IN  (ReadEnds(t) /\ first.out = "err")
                  => IF first.code = BusyRepeatRequest
                     THEN Len(reads) = 2
                     ELSE Len(reads) = 1]_vars

\* C11: a negative response (a non-zero error code in the native response)
\* surfaces as a UDS-protocol error carrying the NRC, a null response as a
\* communication error.
C11_ErrorClassification ==
    \A t \in Tasks :
        (Finished(t) /\ log[t] # <<>> /\ Last(log[t]).fn \in RequestFns) =>
            /\ Last(log[t]).out = "err" =>
                  (result[t].error = "UdsProtocol" /\ result[t].code = Last(log[t]).code)
            /\ Last(log[t]).out = "null" => result[t].error = "UdsCommunication"

\* The step in which get_client of task t fails on its connect.
ConnectFailStep(t) ==
    /\ pc[t] = "gc_connecting" /\ pc'[t] # "gc_connecting"
    /\ ReturnedCall(t).out = "err"

\* The step in which get_client of task t fails constructing the session (the
\* task's result becomes the Ffi error).
CreateFailStep(t) ==
    /\ pc[t] = "idle" /\ pc'[t] = "idle"
    /\ result'[t] # result[t]
    /\ result'[t] = ErrResult("Ffi", "Failed to create UDS client", 0)

\* C13: a get_client that fails constructing or connecting the session inserts
\* nothing, leaves the pool map as it was and returns the error; a session is
\* put into the map only by the successful connect of the task that
\* constructed it, so a later get_client of the id misses and constructs anew.
C13_GetClientFailure ==
    [][/\ \A t \in Tasks :
             ConnectFailStep(t) =>
                 /\ clients' = clients
                 /\ clients'[op[t].comp] = NoHandle
                 /\ pc'[t] = "idle"
                 /\ result'[t].status = "err"
                 /\ result'[t].error = "UdsCommunication"
                 /\ result'[t].msg = "Connection failed with error code"
                 /\ result'[t].code = ReturnedCall(t).code
                 /\ cur'[t] = NoHandle
                 /\ poolLock' = NoTask
       /\ \A t \in Tasks :
             CreateFailStep(t) =>
                 /\ clients' = clients
                 /\ clients'[op'[t].comp] = NoHandle
                 /\ nextHandle' = nextHandle /\ hstate' = hstate
       /\ \A c \in ComponentIds :
             (clients'[c] # clients[c] /\ clients'[c] # NoHandle) =>
                 \E t \in Tasks :
                     /\ pc[t] = "gc_connecting" /\ op[t].comp = c
                     /\ clients'[c] = cur[t]
                     /\ ReturnedCall(t).out = "ok"
       /\ \A t \in Tasks :
             (pc[t] = "idle" /\ pc'[t] = "gc_connecting") =>
                 /\ clients[op'[t].comp] = NoHandle
                 /\ nextHandle' = nextHandle + 1
                 /\ cur'[t] = nextHandle'
                 /\ hcomp'[cur'[t]] = op'[t].comp]_vars

\* The connect of the first session of a component failed, nothing was inserted,
\* and a later get_client of the same id constructed and connected a second one.
C13_Witness ==
    /\ nextHandle = 2
    /\ hcomp[1] = hcomp[2]
    /\ hstate[1] = "destroyed" /\ 1 \notin evicted
    /\ hstate[2] = "connected" /\ clients[hcomp[2]] = 2

\* The step in which close_all of task t starts and finds sessions in the pool.
CloseAllStartStep(t) == pc[t] = "idle" /\ pc'[t] = "ca_disconnecting"

\* The step in which a disconnect of close_all of task t returns.
CloseAllReturnStep(t) == pc[t] = "ca_disconnecting" /\ log'[t] # log[t]

\* The call of close_all that is pending after the step is a disconnect of h.
DisconnectBegun(t, h) ==
    /\ Last(log'[t]).fn = "disconnect" /\ Last(log'[t]).h = h
    /\ Last(log'[t]).out = "pending"
    /\ cur'[t] = h

\* C14: close_all drains the map and begins a disconnect of every drained
\* session, going on whatever a disconnect returned; after the last one it
\* returns Ok and the map is empty.
C14_CloseAllSwallowsErrors ==
    [][\A t \in Tasks :
          /\ CloseAllStartStep(t) =>
                /\ \A c \in ComponentIds : clients'[c] = NoHandle
                /\ \E h \in Handles :
                      /\ DisconnectBegun(t, h)
                      /\ h \notin drainQ'[t]
                      /\ drainQ'[t] \cup {h} =
                            {clients[c] : c \in {x \in ComponentIds : InPool(x)}}
          /\ (CloseAllReturnStep(t) /\ drainQ[t] # {}) =>
                /\ pc'[t] = "ca_disconnecting"
                /\ \E h \in drainQ[t] :
                      DisconnectBegun(t, h) /\ drainQ'[t] = drainQ[t] \ {h}
          /\ (CloseAllReturnStep(t) /\ drainQ[t] = {}) =>
                /\ pc'[t] = "idle"
                /\ result'[t] = OkResult(<<>>)
                /\ \A c \in ComponentIds : clients'[c] = NoHandle]_vars

\* close_all has returned Ok after draining two sessions, the disconnect of one
\* of which failed (it is still connected, another task holding it).
C14_Witness ==
    \E t \in Tasks :
        /\ Finished(t) /\ op[t].kind = "close_all"
        /\ result[t] = OkResult(<<>>)
        /\ Cardinality(evicted) = 2
        /\ \E h \in evicted : hstate[h] = "connected"
        /\ \E h \in evicted : hstate[h] = "destroyed"
        /\ \A c \in ComponentIds : clients[c] = NoHandle

\* C15: no two live sessions address the same ECU address.
C15_SessionExclusivity ==
    \A h1, h2 \in Handles :
        (Live(h1) /\ Live(h2) /\ ecu_address(h1) = ecu_address(h2)) => h1 = h2

\* C16: while a request is in flight or a connect in progress for one ECU, a
\* task can obtain a session for a component of another ECU from the pool.
C16_DifferentEcusInParallel ==
    \A t1, t2 \in Tasks : \A c \in ComponentIds :
        (/\ t1 # t2
         /\ InCall(t1)
         /\ Last(log[t1]).fn \in RequestFns \cup {"connect"}
         /\ get_component_address(c) # ecu_address(Last(log[t1]).h)
         /\ pc[t2] = "idle" /\ opsStarted < MaxOps)
            => ENABLED GetClient(t2, "read", c, NoBody)

\* C17: the native client of a constructed handle is released exactly when the
\* last owner drops the session, once, by a disconnect and then a destroy; no
\* task holds or calls a destroyed handle, the pool does not hold it, and a
\* handle that was not constructed is never released.
C17_NativeLifecycle ==
    \A h \in Handles :
        /\ released[h] \in {<<>>, <<"disconnect", "destroy">>}
        /\ (released[h] # <<>>) <=> (h <= nextHandle /\ refs[h] = 0)
        /\ (released[h] # <<>>) <=> (hstate[h] = "destroyed")
        /\ h > nextHandle => hstate[h] = "unused"
        /\ hstate[h] = "destroyed" =>
              /\ \A t \in Tasks : cur[t] # h /\ ~InCallOn(t, h)
              /\ \A c \in ComponentIds : clients[c] # h

\* A session that was in the pool has been removed from it, and its native
\* client released when the last owner dropped it.
C17_Witness ==
    \E h \in Handles :
        /\ h \in evicted
        /\ released[h] = <<"disconnect", "destroy">>
        /\ hstate[h] = "destroyed"

\* C12: NRC 0x78 (response pending) is tagged pending by the decoder and never
\* reaches the caller of a transport request.
C12_PendingNeverSurfaces ==
    /\ \A i \in 1..Len(calls) : calls[i].result.code # ResponsePending
    /\ (decoded.some /\ ~decoded.is_positive /\ decoded.nrc = ResponsePending)
          => ("pending" \in DOMAIN decoded /\ decoded["pending"])

\* C18: connect on a connected handle and disconnect on a disconnected handle
\* (the disconnect of the drop included) return success and leave the
\* connection state as it was.
C18_ConnectDisconnectIdempotent ==
    \A i \in 1..Len(calls) :
        /\ (calls[i].fn = "connect" /\ calls[i].before = "connected") =>
              (calls[i].result.status = "ok" /\ calls[i].after = "connected")
        /\ (calls[i].fn = "disconnect" /\ calls[i].before = "disconnected") =>
              (calls[i].result.status = "ok" /\ calls[i].after = "disconnected")
        /\ (calls[i].fn = "drop" /\ calls[i].before = "disconnected") =>
              calls[i].result.status = "ok"

\* C19: after a diagnostic_session_control(t) that the ECU answered positively
\* the session's current_session_type is t.
C19_SessionTypeUpdated ==
    (/\ Len(calls) > 0
     /\ Last(calls).fn = "diagnostic_session_control"
     /\ Last(calls).result.status = "ok")
        => /\ "current_session_type" \in DOMAIN sess
           /\ sess["current_session_type"] = Last(calls).arg

\* C20: a request addressed to a component id the configuration does not list is
\* answered with 404; the errors of a request to a configured component that
\* are neither not-found, invalid-request nor timeout are answered with 500.
C20_HttpErrorMapping ==
    \A t \in Tasks :
        (Finished(t) /\ op[t].kind \in HandlerKinds /\ result[t].status \in {"ok", "err"}) =>
            /\ op[t].comp \notin DOMAIN components => into_response(result[t]) = 404
            /\ (/\ op[t].comp \in DOMAIN components
                /\ result[t].status = "err"
                /\ result[t].error \notin {"ComponentNotFound", "DataItemNotFound",
                                           "InvalidRequest", "Timeout"}) =>
                  into_response(result[t]) = 500

\* C21: a service request whose service_type is not a known service makes no
\* transport call (no session is constructed or connected, no native call is
\* made for it) and, once answered, is answered with HTTP 400 / invalid-request,
\* whatever the state of the pool.
C21_UnknownServiceNoTransport ==
    \A t \in Tasks :
        (op[t].kind = "service" /\ op[t].body.name \notin DOMAIN accepted_types) =>
            /\ log[t] = <<>>
            /\ pc[t] # "gc_connecting"
            /\ result[t].status # "none" =>
                   /\ into_response(result[t]) = 400
                   /\ result[t].error = "InvalidRequest"

\* The function fn has been applied to the input of the state.
Done(fn) == applied.fn = fn /\ applied.done

\* C22: for every service id s in 0x00..0x7E and every payload p, decoding the
\* frame that encodes the request (s, p) gives a positive response with service
\* id s and payload p.
C22_CodecRoundTrip ==
    Done("round_trip") /\ applied.arg.service_id <= 126 =>
        /\ applied.out.response.some
        /\ applied.out.response.is_positive
        /\ applied.out.response.service_id = applied.arg.service_id
        /\ applied.out.response.data = applied.arg.data
        /\ applied.out.response.nrc = NoNrc

C22_Witness ==
    /\ Done("round_trip")
    /\ applied.arg = UdsRequest(34, <<241, 144>>)
    /\ applied.out.frame = <<34, 241, 144>>
    /\ applied.out.response.data = <<241, 144>>

\* C23: decoding a frame [0x7F, s, n], with or without trailing bytes, gives a
\* negative response with request service id s and response code n, never a
\* positive response.
C23_NegativeResponseRecognised ==
    Done("from_bytes") /\ Len(applied.arg.frame) >= 3 /\ applied.arg.frame[1] = 127 =>
        /\ applied.out.some
        /\ ~applied.out.is_positive
        /\ applied.out.service_id = applied.arg.frame[2]
        /\ applied.out.nrc = applied.arg.frame[3]

C23_Witness ==
    /\ Done("from_bytes")
    /\ applied.arg.frame = <<127, 34, 49, 98, 241>>
    /\ applied.out.service_id = 34
    /\ applied.out.nrc = 49

\* C24: the decoder gives a positive response for a request with service id sid
\* only if the first byte of the frame is sid + 0x40.
C24_PositiveResponseCheck ==
    Done("from_bytes") /\ applied.out.some /\ applied.out.is_positive =>
        applied.arg.frame[1] = applied.arg.request.service_id + 64

\* C25: the DTC parser ends without error on every buffer and gives
\* floor((len - 1) / 4) entries (none when len < 1), entry i (from 0) built from
\* the bytes 1+4i .. 4+4i; incomplete trailing bytes give no entry.
C25_DtcParserTotal ==
    Done("parse_dtc_data") =>
        LET buf == applied.arg
            n == IF Len(buf) < 1 THEN 0 ELSE (Len(buf) - 1) \div 4
        IN  /\ applied.out.status = "ok"
            /\ Len(applied.out.data) = n
            /\ \A k \in 1..n :
                  /\ applied.out.data[k].code = format_dtc(SubSeq(buf, 4 * k - 2, 4 * k))
                  /\ applied.out.data[k].status = <<48, 120>> \o UpperHex2(buf[4 * k + 1])

C25_Witness ==
    /\ Done("parse_dtc_data")
    /\ Len(applied.arg) = 7
    /\ Len(applied.out.data) = 1
    /\ applied.out.data[1].code = format_dtc(SubSeq(applied.arg, 2, 4))

\* C26: the formatter gives 5 characters for every 3-byte DTC code: the letter of
\* the top two bits of byte 0 (00 P, 01 C, 10 B, 11 U), then one character for
\* each digit position, the values 10..15 written A..F.
C26_DtcFormat ==
    Done("format_dtc") /\ Len(applied.arg) = 3 =>
        LET b == applied.arg
            top == (b[1] \div 64) % 4
            letter == <<80, 67, 66, 85>>[top + 1]
        IN  applied.out = <<letter, HexDigit((b[1] \div 16) % 4), HexDigit(b[1] % 16),
                            HexDigit(b[2] \div 16), HexDigit(b[2] % 16)>>

\* The value of an upper-case hex digit character, or -1.
HexValue(c) == IF c >= 48 /\ c <= 57 THEN c - 48 ELSE IF c >= 65 /\ c <= 70 THEN c - 55 ELSE -1

\* text is the upper-case hex of data, without separator.
IsUpperHexOf(text, data) ==
    /\ Len(text) = 2 * Len(data)
    /\ \A i \in 1..Len(data) :
          /\ HexValue(text[2 * i - 1]) >= 0 /\ HexValue(text[2 * i]) >= 0
          /\ 16 * HexValue(text[2 * i - 1]) + HexValue(text[2 * i]) = data[i]

\* C27: the coercion of read data never fails and follows the data type: string
\* gives the UTF-8 text, or upper-case hex without separator when the bytes are
\* not UTF-8 (FF FE FD gives "FFFEFD"); number gives the big-endian unsigned value
\* for the lengths 1, 2 and 4 and hex for other lengths; boolean gives
\* first byte != 0; any other type gives upper-case hex.
C27_ValueCoercion ==
    Done("convert_uds_data_to_sovd") =>
        LET data == applied.arg.data
            ty == applied.arg.data_type
            v == applied.out.data
            n == Len(data)
        IN  /\ applied.out.status = "ok"
            /\ ty = "string" =>
                  /\ v.json = "string"
                  /\ IF from_utf8_ok(data) THEN v.value = data ELSE IsUpperHexOf(v.value, data)
                  /\ (\A i \in 1..n : data[i] < 128) => v.value = data
                  /\ data = <<255, 254, 253>> => v.value = <<70, 70, 70, 69, 70, 68>>
            /\ ty = "number" /\ n = 1 => v = JsonNumber(U32(0, data[1]))
            /\ ty = "number" /\ n = 2 => v = JsonNumber(U32(0, data[1] * 256 + data[2]))
            /\ ty = "number" /\ n = 4 =>
                  v = JsonNumber(U32(data[1] * 256 + data[2], data[3] * 256 + data[4]))
            /\ ty = "number" /\ n \notin {1, 2, 4} =>
                  v.json = "string" /\ IsUpperHexOf(v.value, data)
            /\ ty = "boolean" => v = JsonBool(n > 0 /\ data[1] # 0)
            /\ ty \notin {"string", "number", "boolean"} =>
                  v.json = "string" /\ IsUpperHexOf(v.value, data)

C27_Witness ==
    /\ Done("convert_uds_data_to_sovd")
    /\ applied.arg = [data |-> <<255, 254, 253>>, data_type |-> "string"]
    /\ applied.out.data = JsonString(<<70, 70, 70, 69, 70, 68>>)

\* C28: when the transport answers the read of DID 0xF190 with the echoed bytes
\* 0xF1 0x90 followed by ASCII text, read_data_item("vin") sends one read request
\* for 0xF190 and returns the ASCII text alone as data (without the two echoed
\* bytes, not as hex), with quality "good".
C28_ReadVinEndToEnd ==
    LET resp == applied.arg.answer.resp IN
    /\ Done("read_data_item")
    /\ applied.arg.id = "vin"
    /\ applied.arg.answer.out = "ok"
    /\ Len(resp) > 2 /\ resp[1] = 241 /\ resp[2] = 144
    /\ \A i \in 3..Len(resp) : resp[i] >= 32 /\ resp[i] < 127
    => /\ applied.out.calls = <<TransportCall("read_data_by_identifier", VIN)>>
       /\ applied.out.result.status = "ok"
       /\ applied.out.result.data.data = JsonString(SubSeq(resp, 3, Len(resp)))
       /\ applied.out.result.data.quality = "good"

\* The ids of a list of data items, and the items of a list of categories.
ItemIds(items) == [i \in 1..Len(items) |-> items[i].id]
ItemsOfCategories(cats) ==
    UNION {{category_mappings[cats[i]][j] : j \in 1..Len(category_mappings[cats[i]])} :
              i \in {k \in 1..Len(cats) : cats[k] \in DOMAIN category_mappings}}

\* C29: the list of data items is the set union of the items of the named
\* categories: every item at most once, also when categories repeat; unknown
\* categories give nothing; an absent or empty filter gives all catalogued items.
C29_ListIsSetUnion ==
    Done("get_component_data") =>
        LET q == applied.arg.query
            ids == ItemIds(applied.out)
            cats == [i \in 1..Len(q.pieces) |-> trim(q.pieces[i])]
        IN  /\ \A i, j \in 1..Len(ids) : i # j => ids[i] # ids[j]
            /\ {ids[i] : i \in 1..Len(ids)} =
                  IF ~q.some \/ q.pieces = <<"">> THEN DOMAIN did_mappings
                  ELSE ItemsOfCategories(cats)

\* C30: manage_dtcs sends one clear-diagnostic-information request for the group
\* 0xFFFFFF for "clear" and reports status success when it is answered, one
\* read-DTC request with sub-function 0x02 for "read", one with sub-function 0x04
\* for "freeze_frame", and for any other action sends no request and returns an
\* invalid-request error.
C30_DtcDispatch ==
    Done("manage_dtcs") =>
        LET action == applied.arg.action
            answered == applied.arg.answer.out = "ok"
            sent == applied.out.calls
            res == applied.out.result
        IN  /\ action = "clear" =>
                  /\ sent = <<TransportCall("clear_diagnostic_information", 16777215)>>
                  /\ answered => res.status = "ok" /\ res.data.status = "success"
            /\ action = "read" => sent = <<TransportCall("read_dtc_information", 2)>>
            /\ action = "freeze_frame" => sent = <<TransportCall("read_dtc_information", 4)>>
            /\ action \in {"clear", "read", "freeze_frame"} =>
                  /\ answered => res.status = "ok" /\ res.data.action = action
                  /\ ~answered => res.status = "err" /\ res.error = "UdsCommunication"
            /\ action \notin {"clear", "read", "freeze_frame"} =>
                  /\ sent = <<>>
                  /\ res.status = "err" /\ res.error = "InvalidRequest"
                  /\ into_response(res) = 400

C30_Witness ==
    /\ Done("manage_dtcs")
    /\ applied.arg.action = "clear"
    /\ applied.arg.answer.out = "ok"
    /\ Len(applied.out.calls) = 1
    /\ applied.out.result.data.status = "success"

\* The value of an actuator request has no byte encoding: null, array or object,
\* or a number that is not a non-negative integer.
Unsupported(value) ==
    value.some /\ (value.v.json \notin {"number", "bool", "string"}
                     \/ (value.v.json = "number" /\ value.v.n # "PosInt"))

\* C31: control_actuator validates before it acts. An unknown actuator id, an
\* action other than "start"/"stop" or a value of an unsupported type gives an
\* invalid-request error and no routine-control request; otherwise one
\* routine-control request is sent, with control type 0x01 for start and 0x02 for
\* stop and the routine id of the actuator, and the answered request's response
\* echoes actuator id, action and value with status success.
C31_ActuatorValidatedFirst ==
    Done("control_actuator") =>
        LET req == applied.arg.request
            sent == applied.out.calls
            res == applied.out.result
            invalid == \/ req.actuator_id \notin {"fuel_pump", "cooling_fan", "throttle"}
                       \/ req.action \notin {"start", "stop"}
                       \/ Unsupported(req.value)
        IN  IF invalid
            THEN /\ sent = <<>>
                 /\ res.status = "err" /\ res.error = "InvalidRequest"
                 /\ into_response(res) = 400
            ELSE /\ Len(sent) = 1
                 /\ sent[1].fn = "routine_control"
                 /\ sent[1].arg.control_type = (IF req.action = "start" THEN 1 ELSE 2)
                 /\ sent[1].arg.routine_id =
                        (CASE req.actuator_id = "fuel_pump" -> 513
                           [] req.actuator_id = "cooling_fan" -> 514
                           [] req.actuator_id = "throttle" -> 515)
                 /\ applied.arg.answer.out = "ok" =>
                        /\ res.status = "ok"
                        /\ res.data.actuator_id = req.actuator_id
                        /\ res.data.action = req.action
                        /\ res.data.value = req.value
                        /\ res.data.status = "success"
                 /\ applied.arg.answer.out # "ok" =>
                        res.status = "err" /\ res.error = "UdsCommunication"

C31_Witness ==
    /\ Done("control_actuator")
    /\ applied.arg.request.actuator_id = "throttle"
    /\ applied.arg.request.action = "stop"
    /\ applied.arg.request.value = [some |-> TRUE, v |-> JsonPosInt(U64Of(260))]
    /\ applied.arg.answer.out = "ok"
    /\ applied.out.calls =
          <<TransportCall("routine_control",
                          [control_type |-> 2, routine_id |-> 515, params |-> <<1, 4>>])>>
    /\ applied.out.result.data.status = "success"

\* C34: the serialisation of a number is the minimal big-endian encoding and
\* loses nothing: an accepted value is a non-negative integer written in 1 byte
\* if <= 255, 2 bytes if <= 65535 and 4 bytes otherwise, and the bytes read back
\* as a big-endian unsigned integer are the value; a number without such an
\* encoding is rejected with an invalid-request error.
C34_NumberSerialisation ==
    Done("serialize_value_to_bytes") /\ applied.arg.json = "number" =>
        IF applied.out.status = "ok"
        THEN LET i == applied.arg.value
                 bytes == applied.out.data
             IN  /\ as_u64_some(applied.arg)
                 /\ Len(bytes) = (IF AtMost(i, 255) THEN 1 ELSE IF AtMost(i, 65535) THEN 2 ELSE 4)
                 /\ i.hi = U32(0, 0)
                 /\ from_be_bytes(bytes) = i.lo
        ELSE applied.out.status = "err" /\ applied.out.error = "InvalidRequest"

\* The calls of session_control / ecu_reset among the calls of the task's
\* operation in progress.
ServiceCalls(t) ==
    SelectSeq(log[t], LAMBDA e : e.fn \in {"diagnostic_session_control", "ecu_reset"})

\* C40: a session_control (ecu_reset) service request sends its UDS request only
\* when the session_type (reset_type) parameter is exactly 1, 2, 3 or 4 (1, 2 or
\* 3); every other number, values above 255 included, and a missing parameter
\* are rejected with invalid-request and no UDS request (once get_client has
\* returned the session).
C40_ServiceParameterValidation ==
    \A t \in Tasks :
        (op[t].kind = "service" /\ op[t].body.name \in {"session_control", "ecu_reset"}) =>
            LET par == op[t].body.parameter
                allowed == IF op[t].body.name = "session_control"
                           THEN {1, 2, 3, 4} ELSE {1, 2, 3}
                exact == /\ par.some
                         /\ par.v.json = "number" /\ par.v.n = "PosInt"
                         /\ AtMost(par.v.value, 255)
                         /\ par.v.value.lo.lo \in allowed
            IN  IF exact
                THEN \A i \in 1..Len(ServiceCalls(t)) :
                        ServiceCalls(t)[i].arg = par.v.value.lo.lo
                ELSE /\ ServiceCalls(t) = <<>>
                     /\ (Finished(t) /\ result[t].error # "UdsCommunication"
                                     /\ result[t].error # "Ffi") =>
                            /\ result[t].status = "err"
                            /\ result[t].error = "InvalidRequest"

\* The step in which the seed request of t returns an empty seed.
EmptySeedStep(t) ==
    /\ pc[t] = "seed"
    /\ log'[t] # log[t]
    /\ ReturnedCall(t).out = "ok"
    /\ ReturnedCall(t).resp = <<>>

\* C32: when the seed request succeeds with an empty seed, no send-key request
\* is issued and the gated write proceeds: the next request of the operation is
\* the write request.
C32_EmptySeedShortcut ==
    [][\A t \in Tasks :
          EmptySeedStep(t) =>
              /\ pc'[t] = "request"
              /\ Len(log'[t]) = Len(log[t]) + 1
              /\ Last(log'[t]) = WriteCall(t)
              /\ Len(SelectSeq(log'[t], LAMBDA e : e.fn = "security_access")) = 1]_vars

\* A gated write is in progress after one security-access request, answered
\* with the empty seed.
C32_Witness ==
    \E t \in Tasks :
        /\ require_security_access
        /\ pc[t] = "request" /\ op[t].kind = "write"
        /\ Len(SecCalls(t)) = 1
        /\ SecCalls(t)[1].out = "ok" /\ SecCalls(t)[1].resp = <<>> /\ SecCalls(t)[1].data = <<>>
        /\ Last(log[t]).fn = "write_data_by_identifier" /\ Last(log[t]).out = "pending"

\* C33: the payload of the send-key request is the key derived from exactly the
\* seed the request-seed call returned: it has the length of the seed and every
\* byte is the seed byte XOR 0xAA (the seed 12 34 gives the key B8 9E).
C33_KeyDerivationWiring ==
    \A t \in Tasks :
        \A i \in 2..Len(log[t]) :
            (log[t][i].fn = "security_access" /\ log[t][i - 1].fn = "security_access") =>
                LET seed == log[t][i - 1].resp
                    key == log[t][i].data
                IN  /\ log[t][i - 1].out = "ok" /\ log[t][i - 1].data = <<>>
                    /\ seed # <<>>
                    /\ Len(key) = Len(seed)
                    /\ \A k \in 1..Len(seed) : key[k] = Xor8(seed[k], 170)
                    /\ seed = <<18, 52>> => key = <<184, 158>>

C33_Witness ==
    \E t \in Tasks :
        /\ pc[t] = "key"
        /\ Len(log[t]) >= 2
        /\ log[t][Len(log[t]) - 1].resp = <<18, 52>>
        /\ Last(log[t]).fn = "security_access"
        /\ Last(log[t]).data = <<184, 158>>
        /\ Last(log[t]).out = "pending"

\* The step in which task t begins a native request.
BeginsRequest(t) ==
    /\ log'[t] # log[t]
    /\ Len(log'[t]) > 0
    /\ Last(log'[t]).fn \in RequestFns
    /\ Last(log'[t]).out = "pending"

\* C35: once the pool has disconnected a session (remove_client, close_all), no
\* request begins on that session, also not by a task that got the session from
\* get_client before the disconnect.
C35_NoRequestAfterDisconnect ==
    [][\A t \in Tasks :
          BeginsRequest(t) => hstate[Last(log'[t]).h] # "disconnected"]_vars

\* Task t is between the beginning of its seed request and the return of its
\* gated write on session h.
InHandshake(t, h) ==
    /\ require_security_access
    /\ op[t].kind = "write"
    /\ cur[t] = h
    /\ pc[t] \in {"seed", "key", "request"}

\* C36: while one write_data_by_identifier call is between its seed request and
\* the return of its gated write on a session, no other task begins a request
\* on that session.
C36_HandshakeAtomic ==
    [][\A t1, t2 \in Tasks :
          (t1 # t2 /\ BeginsRequest(t2)) => ~InHandshake(t1, Last(log'[t2]).h)]_vars

\* Task t acts in the step and is idle after it.
EndsIdle(t) ==
    /\ pc'[t] = "idle"
    /\ (pc[t] # "idle" \/ result'[t] # result[t] \/ op'[t] # op[t] \/ log'[t] # log[t])

\* C38: remove_client(id) removes the entry whether or not the disconnect
\* succeeds: a failed disconnect returns its error and id is absent from the
\* pool, so that the next get_client(id) constructs a session; for an absent id
\* it returns success, makes no transport call and leaves the pool unchanged.
C38_RemoveClient ==
    [][\A t \in Tasks :
          /\ (pc[t] = "idle" /\ pc'[t] = "rm_disconnecting") =>
                /\ clients[op'[t].comp] # NoHandle
                /\ clients'[op'[t].comp] = NoHandle
                /\ log'[t] = <<Call("disconnect", clients[op'[t].comp], 0, <<>>)>>
          /\ (pc[t] = "rm_disconnecting" /\ pc'[t] = "idle") =>
                /\ clients'[op[t].comp] = NoHandle
                /\ clients' = clients
                /\ result'[t] =
                      (IF ReturnedCall(t).out = "ok" THEN OkResult(<<>>)
                       ELSE ErrResult("UdsCommunication",
                                      "Disconnection failed with error code",
                                      ReturnedCall(t).code))
          /\ (pc[t] = "idle" /\ EndsIdle(t) /\ op'[t].kind = "remove_client") =>
                /\ clients[op'[t].comp] = NoHandle
                /\ clients' = clients
                /\ result'[t] = OkResult(<<>>)
                /\ log'[t] = <<>>
                /\ hstate' = hstate
          /\ (pc[t] = "idle" /\ pc'[t] = "gc_connecting") =>
                /\ clients[op'[t].comp] = NoHandle
                /\ cur'[t] \notin evicted
                /\ hstate[cur'[t]] = "unused" /\ hstate'[cur'[t]] = "created"]_vars

\* A remove_client has returned the error of its disconnect, and a later
\* get_client of the same id has constructed and connected a second session.
C38_Witness ==
    \E t1, t2 \in Tasks :
        /\ t1 # t2
        /\ Finished(t1) /\ op[t1].kind = "remove_client"
        /\ result[t1].status = "err"
        /\ result[t1].msg = "Disconnection failed with error code"
        /\ pc[t2] = "dispatch"
        /\ op[t2].comp = op[t1].comp
        /\ cur[t2] = 2 /\ 1 \in evicted
        /\ hcomp[1] = hcomp[2]
        /\ clients[op[t1].comp] = 2

\* C39: for every security_level L the handshake uses the sub-function 2L-1 for
\* the seed request and 2L for the key send, computed without underflow or
\* wrap-around in 8 bits: the seed sub-function is odd and the key sub-function
\* is the next even value.
C39_SubFunctionArithmetic ==
    \A t \in Tasks :
        /\ result[t] # PanicResult
        /\ \A i \in 1..Len(log[t]) :
              log[t][i].fn = "security_access" =>
                  IF log[t][i].data = <<>>
                  THEN /\ log[t][i].arg = 2 * security_level - 1
                       /\ log[t][i].arg % 2 = 1
                  ELSE /\ log[t][i].arg = 2 * security_level
                       /\ log[t][i].arg = log[t][i - 1].arg + 1

\* C37: if every native call returns, every operation that has started
\* eventually completes (every task is idle again and again, which is
\* pc[t] # "idle" ~> pc[t] = "idle"), whatever get_client, remove_client,
\* close_all and session requests run concurrently: an operation that has started can always
\* take its next step (no task waits for a lock in a cycle), and the pool lock
\* is held by an operation in progress only, so it is released with it.
C37_DeadlockFreedom ==
    /\ \A t \in Tasks : []<>(pc[t] = "idle")
    /\ [](\A t \in Tasks : pc[t] # "idle" => ENABLED Continue(t))
    /\ [](\A t \in Tasks : poolLock = t => pc[t] # "idle")

\* A remove_client holds the pool lock and waits for the disconnect of a
\* session on which another task has a request in flight.
C37_Witness ==
    \E t1, t2 \in Tasks :
        /\ t1 # t2
        /\ pc[t1] = "rm_disconnecting" /\ poolLock = t1
        /\ pc[t2] = "request"
        /\ Last(log[t1]).h = cur[t2]
        /\ Last(log[t2]).h = cur[t2]
        /\ Last(log[t1]).out = "pending" /\ Last(log[t2]).out = "pending"
====
